---- MODULE Spec2Model ----
(***************************************************************************)
(* Model of the tax computation engines of samafflu93/Tax-Forms:           *)
(*   engines/compute_federal_full.py  (full federal engine)                *)
(*   engines/compute_federal.py       (federal stub)                       *)
(*   engines/compute_nj_full.py       (full NJ engine)                     *)
(*   engines/compute_nj.py            (NJ engine v2)                       *)
(* and of the scripts that select and call them:                           *)
(*   run_federal.py, run_nj.py, wizard.py (load_engines, main), and of     *)
(* the collect, review and edit operations of wizard.py.                   *)
(*                                                                         *)
(* ARITHMETIC.  The engines compute in Python floats; the model computes   *)
(* the same expressions in exact fixed-point integers.  Each engine has a  *)
(* money tick and a tax tick chosen so that every product rate * amount of *)
(* the source is an integer number of tax ticks:                           *)
(*   federal full : inputs in whole dollars, AGI and taxable income in     *)
(*                  1/40 dollar (FedM ticks per dollar: 0.5, 0.85 and      *)
(*                  0.85*0.5 of a whole dollar are whole ticks), tax and   *)
(*                  credits in 1/4000 dollar (FedT; rates are percents).   *)
(*   federal stub : wages in whole dollars, tax in 1/4000 dollar.          *)
(*   NJ full      : money in whole dollars, tax in 1/20000 dollar (NjT;    *)
(*                  every NJ rate is a multiple of 0.00005).               *)
(*   NJ v2        : as NJ full; _round_dollar rounds tax ticks to whole    *)
(*                  dollars, half to even, as Python's round() does.       *)
(* A field value as the engines receive it (a number, None, an empty       *)
(* string or text that is not a number) is a record [tag, val].            *)
(***************************************************************************)
EXTENDS Integers, Sequences, FiniteSets, TLC

VARIABLES
    br,        \* one evaluation of a bracket evaluator on two amounts
    taxpayer,  \* the taxpayer profile handed to the engines
    w2s,       \* the list of wage statements handed to the engines
    call,      \* the latest engine call: engine, EITC provider, result
    earlier    \* the engine call before the latest one

vars == <<br, taxpayer, w2s, call, earlier>>

\* ------------------------------------------------------------------------
\* Units
\* ------------------------------------------------------------------------
FedM == 40          \* federal money ticks per dollar
FedRateDen == 100   \* federal rates are written in percent
FedT == FedM * FedRateDen      \* federal tax ticks per dollar (4000)
NjT == 20000        \* NJ tax ticks per dollar; NJ rates in 1/20000

\* Stand-in for the top tier's cap of the full engines (10**12), which is
\* above the integer range of the model checker.  For every amount below it
\* min(remaining, cap - prev_cap) is `remaining`, as in the source for every
\* amount below 10**12; an amount above it stands for one above 10**12.
TopCap == 2000000000

\* float("inf"), the top tier's cap of the v2 tables: it is above every
\* amount, and float("inf") - last is float("inf").
Infinity == 2147483647

Max(a, b) == IF a >= b THEN a ELSE b
Min(a, b) == IF a <= b THEN a ELSE b
Min3IgnoresThird(a, b, c) == Min(a, b)
Min3(a, b, c) == Min(a, Min(b, c))

\* ------------------------------------------------------------------------
\* Raw field values and safe_float
\* ------------------------------------------------------------------------
Num(n) == [tag |-> "num", val |-> n]
Missing == [tag |-> "missing", val |-> 0]  \* the key is not in the dict
NoneVal == [tag |-> "none", val |-> 0]     \* None
EmptyStr == [tag |-> "empty", val |-> 0]   \* "" or blank text
BadText == [tag |-> "text", val |-> 0]     \* text float() rejects

\* taxpayer.get("filing_status", "single")
FsGet(fs) == IF fs = "<missing>" THEN "single" ELSE fs
\* taxpayer.get("filing_status") or ""
FsOrEmpty(fs) == IF fs = "<missing>" THEN "" ELSE fs

\* compute_federal_full.safe_float / compute_nj_full.safe_float
safe_float(x) == IF x.tag = "num" THEN x.val ELSE 0

\* ------------------------------------------------------------------------
\* Filing statuses and bracket tables
\* ------------------------------------------------------------------------
FilingStatuses == {"single", "married_joint", "married_separate",
                   "head_household", "qual_widow"}

\* compute_federal_full.BRACKETS: <<cap in dollars, rate in percent>>
BRACKETS(fs) ==
    CASE fs = "married_joint" ->
           << <<23200, 10>>, <<94300, 12>>, <<201050, 22>>, <<383900, 24>>,
              <<487450, 32>>, <<731200, 35>>, <<TopCap, 37>> >>
      [] fs = "married_separate" ->
           << <<11600, 10>>, <<47150, 12>>, <<100525, 22>>, <<191950, 24>>,
              <<243725, 32>>, <<365600, 35>>, <<TopCap, 37>> >>
      [] fs = "head_household" ->
           << <<16550, 10>>, <<63100, 12>>, <<100500, 22>>, <<191950, 24>>,
              <<243700, 32>>, <<609350, 35>>, <<TopCap, 37>> >>
      [] fs = "qual_widow" ->
           << <<23200, 10>>, <<94300, 12>>, <<201050, 22>>, <<383900, 24>>,
              <<487450, 32>>, <<731200, 35>>, <<TopCap, 37>> >>
      [] OTHER ->   \* "single", and BRACKETS.get(fs, BRACKETS["single"])
           << <<11600, 10>>, <<47150, 12>>, <<100525, 22>>, <<191950, 24>>,
              <<243725, 32>>, <<609350, 35>>, <<TopCap, 37>> >>

\* A cap in federal money ticks.
FedCap(slabs, i) ==
    IF slabs[i][1] = TopCap THEN TopCap ELSE slabs[i][1] * FedM

\* compute_nj_full.NJ_BRACKETS: <<cap in dollars, rate in 1/20000>>
NJ_BRACKETS ==
    << <<20000, 280>>, <<35000, 350>>, <<40000, 700>>, <<75000, 1105>>,
       <<500000, 1274>>, <<TopCap, 1794>> >>

\* compute_nj.BRACKETS_SINGLE_MFS / BRACKETS_MFJ
BRACKETS_SINGLE_MFS ==
    << <<20000, 280>>, <<35000, 350>>, <<40000, 700>>, <<75000, 1105>>,
       <<500000, 1274>>, <<5000000, 1794>>, <<Infinity, 2150>> >>
BRACKETS_MFJ ==
    << <<20000, 280>>, <<50000, 350>>, <<70000, 490>>, <<80000, 700>>,
       <<150000, 1105>>, <<500000, 1274>>, <<5000000, 1794>>,
       <<Infinity, 2150>> >>

\* compute_nj._get_brackets; fs is already upper-cased by the caller
_get_brackets(fs) == IF fs = "MFJ" THEN BRACKETS_MFJ ELSE BRACKETS_SINGLE_MFS

\* ------------------------------------------------------------------------
\* Bracket evaluators
\* ------------------------------------------------------------------------
\* One pass of the loop body of compute_federal_full.tax_from_brackets:
\* the tax accumulated after a chunk taxed at `rate`.
FedAccumulateOverwrite(tax, chunk, rate) == chunk * rate
FedAccumulate(tax, chunk, rate) == tax + chunk * rate

RECURSIVE FedSlabLoop(_, _, _, _, _)
FedSlabLoop(slabs, i, remaining, prev_cap, tax) ==
    IF i > Len(slabs) THEN tax
    ELSE LET cap == FedCap(slabs, i)
             rate == slabs[i][2]
             chunk == Max(0, Min(remaining, cap - prev_cap))
             tax2 == FedAccumulate(tax, chunk, rate)
             rem2 == remaining - chunk
         IN  IF rem2 <= 0 THEN tax2
             ELSE FedSlabLoop(slabs, i + 1, rem2, cap, tax2)

\* compute_federal_full.tax_from_brackets; taxable in FedM ticks, result in
\* FedT ticks
tax_from_brackets(taxable, filing_status) ==
    Max(0, FedSlabLoop(BRACKETS(filing_status), 1, Max(0, taxable), 0, 0))

NjAccumulateFirstRate(tax, chunk, rate) == tax + chunk * NJ_BRACKETS[1][2]
NjAccumulate(tax, chunk, rate) == tax + chunk * rate

RECURSIVE NjSlabLoop(_, _, _, _)
NjSlabLoop(i, taxable, prev, tax) ==
    IF i > Len(NJ_BRACKETS) THEN tax
    ELSE LET cap == NJ_BRACKETS[i][1]
             rate == NJ_BRACKETS[i][2]
             chunk == Max(0, Min(taxable, cap - prev))
             tax2 == NjAccumulate(tax, chunk, rate)
             rem2 == taxable - chunk
         IN  IF rem2 <= 0 THEN tax2
             ELSE NjSlabLoop(i + 1, rem2, cap, tax2)

\* compute_nj_full.tax_from_brackets; taxable in dollars, result in NjT ticks
nj_tax_from_brackets(taxable) ==
    Max(0, NjSlabLoop(1, Max(0, taxable), 0, 0))

V2Accumulate(tax, step, rate) == tax + step * rate

\* cap - last of compute_nj._tax_from_brackets
V2Width(cap, last) == IF cap = Infinity THEN Infinity ELSE cap - last

RECURSIVE V2SlabLoop(_, _, _, _, _)
V2SlabLoop(brackets, i, remain, last, tax) ==
    IF i > Len(brackets) THEN tax
    ELSE LET cap == brackets[i][1]
             rate == brackets[i][2]
             step == Min(remain, V2Width(cap, last))
             tax2 == IF step > 0 THEN V2Accumulate(tax, step, rate) ELSE tax
             rem2 == IF step > 0 THEN remain - step ELSE remain
             last2 == IF step > 0 THEN cap ELSE last
         IN  IF rem2 <= 0 THEN tax2
             ELSE V2SlabLoop(brackets, i + 1, rem2, last2, tax2)

\* compute_nj._tax_from_brackets; taxable in dollars, result in NjT ticks
_tax_from_brackets(taxable, brackets) ==
    IF taxable <= 0 THEN 0 ELSE V2SlabLoop(brackets, 1, taxable, 0, 0)

\* The walk over the tiers of compute_federal_full.tax_from_brackets without
\* the tax: the chunk taken in each tier the loop visits, and `remaining` when
\* the loop ends.  Amounts in federal money ticks.
RECURSIVE FedChunks(_, _, _, _)
FedChunks(slabs, i, remaining, prev_cap) ==
    IF i > Len(slabs) THEN [chunks |-> << >>, remaining |-> remaining]
    ELSE LET cap == FedCap(slabs, i)
             chunk == Max(0, Min(remaining, cap - prev_cap))
             rem2 == remaining - chunk
             rest == IF rem2 <= 0
                     THEN [chunks |-> << >>, remaining |-> rem2]
                     ELSE FedChunks(slabs, i + 1, rem2, cap)
         IN  [chunks |-> <<chunk>> \o rest.chunks,
              remaining |-> rest.remaining]

\* The same for compute_nj_full.tax_from_brackets; amounts in dollars.
RECURSIVE NjChunks(_, _, _)
NjChunks(i, taxable, prev) ==
    IF i > Len(NJ_BRACKETS) THEN [chunks |-> << >>, remaining |-> taxable]
    ELSE LET cap == NJ_BRACKETS[i][1]
             chunk == Max(0, Min(taxable, cap - prev))
             rem2 == taxable - chunk
             rest == IF rem2 <= 0
                     THEN [chunks |-> << >>, remaining |-> rem2]
                     ELSE NjChunks(i + 1, rem2, cap)
         IN  [chunks |-> <<chunk>> \o rest.chunks,
              remaining |-> rest.remaining]

\* The same for compute_nj._tax_from_brackets: a tier whose step is not
\* positive takes nothing.
RECURSIVE V2Chunks(_, _, _, _)
V2Chunks(brackets, i, remain, last) ==
    IF i > Len(brackets) THEN [chunks |-> << >>, remaining |-> remain]
    ELSE LET cap == brackets[i][1]
             step == Min(remain, V2Width(cap, last))
             rem2 == IF step > 0 THEN remain - step ELSE remain
             last2 == IF step > 0 THEN cap ELSE last
             rest == IF rem2 <= 0
                     THEN [chunks |-> << >>, remaining |-> rem2]
                     ELSE V2Chunks(brackets, i + 1, rem2, last2)
         IN  [chunks |-> <<IF step > 0 THEN step ELSE 0>> \o rest.chunks,
              remaining |-> rest.remaining]

\* ------------------------------------------------------------------------
\* Specification of the bracket evaluators on their own
\* ------------------------------------------------------------------------
Evaluators == {"federal_full", "nj_full", "nj_v2"}

\* The filing-status argument each evaluator's table is selected by.
TableKeys(ev) ==
    CASE ev = "federal_full" -> FilingStatuses
      [] ev = "nj_full" -> {"single"}
      [] OTHER -> {"MFJ", "S"}

TableOf(ev, key) ==
    CASE ev = "federal_full" -> BRACKETS(key)
      [] ev = "nj_full" -> NJ_BRACKETS
      [] OTHER -> _get_brackets(key)

\* Money ticks per dollar of the evaluator's argument.
TicksOf(ev) == IF ev = "federal_full" THEN FedM ELSE 1

\* Largest amount, in dollars, given to an evaluator: the tax of a larger
\* amount, in tax ticks, is outside the integer range of the model checker.
\* The v2 tier bound at 5,000,000 lies above it.
MaxAmount == 1000000

\* Number of amounts evaluated above the last tier bound within MaxAmount.
MaxOverTop == 3

\* The tier bounds of a table that amounts of the model can reach, in the
\* evaluator's money ticks.
ReachableCaps(ev, key) ==
    LET t == TableOf(ev, key)
    IN  {t[i][1] * TicksOf(ev) : i \in {j \in 1..Len(t) : t[j][1] <= MaxAmount}}

\* Amounts around every reachable tier bound, one tick either side, plus the
\* extremes: the cases where a tier begins or ends.
Amounts(ev, key) ==
    LET caps == ReachableCaps(ev, key)
        top == CHOOSE c \in caps : \A d \in caps : d <= c
        gap == (MaxAmount * TicksOf(ev) - top) \div (MaxOverTop + 1)
    IN  {0, 1}
        \cup UNION {{c - 1, c, c + 1} : c \in caps}
        \cup {top + k * gap : k \in 1..MaxOverTop}

Evaluate(ev, key, x) ==
    CASE ev = "federal_full" -> tax_from_brackets(x, key)
      [] ev = "nj_full" -> nj_tax_from_brackets(x)
      [] OTHER -> _tax_from_brackets(x, _get_brackets(key))

NoCall == [engine |-> "none"]
NoProfile == [kind |-> "none"]

InitBrackets ==
    /\ \E ev \in Evaluators : \E key \in TableKeys(ev) :
         \E x \in Amounts(ev, key) : \E y \in Amounts(ev, key) :
           br = [pc |-> "args", ev |-> ev, key |-> key, x |-> x, y |-> y,
                 tx |-> 0, ty |-> 0]
    /\ taxpayer = NoProfile
    /\ w2s = << >>
    /\ call = NoCall
    /\ earlier = NoCall

\* The evaluator is applied to both amounts.
EvalBrackets ==
    /\ br.pc = "args"
    /\ br' = [br EXCEPT !.pc = "done",
                        !.tx = Evaluate(br.ev, br.key, br.x),
                        !.ty = Evaluate(br.ev, br.key, br.y)]
    /\ UNCHANGED <<taxpayer, w2s, call, earlier>>

NextBrackets == EvalBrackets

SpecBrackets == InitBrackets /\ [][NextBrackets]_vars

\* C10: for every bracket table of the engines and all amounts 0 <= x <= y,
\* the bracket tax of x is at most the bracket tax of y.
C10_BracketMonotone ==
    (br.pc = "done" /\ 0 <= br.x /\ br.x <= br.y) => br.tx <= br.ty

\* C10 witness: two amounts on either side of a tier bound have been
\* evaluated and the larger one is taxed strictly more.
C10_Witness ==
    /\ br.pc = "done"
    /\ br.x < br.y
    /\ br.tx < br.ty
    /\ \E c \in ReachableCaps(br.ev, br.key) : br.x < c /\ c < br.y

\* ------------------------------------------------------------------------
\* Dates of birth and age_on
\* ------------------------------------------------------------------------
\* A date of birth as the engines receive it: the text and the date it
\* denotes.  fmt "iso" is "YYYY-MM-DD", fmt "us" is "MM/DD/YYYY" (the format
\* wizard.py prompts for), fmt "empty" is "" or a missing key.
Dob(fmt, y, m, d) == [fmt |-> fmt, y |-> y, m |-> m, d |-> d]
NoDob == Dob("empty", 0, 0, 0)

IsLeap(y) == (y % 4 = 0 /\ y % 100 # 0) \/ y % 400 = 0
DaysIn(y, m) ==
    CASE m \in {4, 6, 9, 11} -> 30
      [] m = 2 -> IF IsLeap(y) THEN 29 ELSE 28
      [] OTHER -> 31

\* datetime.date(y, m, d) does not raise
ValidDate(y, m, d) ==
    y \in 1..9999 /\ m \in 1..12 /\ d \in 1..DaysIn(y, m)

\* (end.month, end.day) < (born.month, born.day), end = December 31
BeforeBirthdayStrict(em, ed, bm, bd) == em < bm \/ (em = bm /\ ed <= bd)
BeforeBirthday(em, ed, bm, bd) == em < bm \/ (em = bm /\ ed < bd)

\* compute_federal_full.age_on / compute_nj_full.age_on (identical bodies):
\* dob.split("-") must give three integers of a valid date, else 99.
age_on(dob, year) ==
    IF dob.fmt = "empty" THEN 99
    ELSE IF dob.fmt = "iso" /\ ValidDate(dob.y, dob.m, dob.d)
         THEN year - dob.y - (IF BeforeBirthday(12, 31, dob.m, dob.d) THEN 1 ELSE 0)
         ELSE 99

\* ------------------------------------------------------------------------
\* compute_nj_full.py
\* ------------------------------------------------------------------------
NJ_TAX_YEAR == 2024

NJ_PERSONAL_EXEMPTION(fs) ==
    CASE fs = "married_joint" -> 2000
      [] fs = "qual_widow" -> 2000
      [] OTHER -> 1000    \* the other statuses, and .get(fs, ...["single"])
NJ_DEP_EXEMPTION == 1500

\* RENT_TO_PROP_FACTOR = 0.18 = RENT_FACTOR_NUM / RENT_FACTOR_DEN
RENT_FACTOR_NUM == 9
RENT_FACTOR_DEN == 50
PROP_DED_CAP == 15000
FLAT_PT_CREDIT == 50
PT_CREDIT_REFUNDABLE == FALSE

\* NJ_EITC_RATE = 0.40 = NJ_EITC_NUM / NJ_EITC_DEN
NJ_EITC_NUM == 2
NJ_EITC_DEN == 5

PENSION_EXCLUSION_MAX(fs) ==
    CASE fs = "married_joint" -> 150000
      [] fs = "qual_widow" -> 150000
      [] OTHER -> 75000   \* the other statuses, and .get(fs, 75000.0)
PENSION_EXCLUSION_INCOME_LIMIT == 100000
PENSION_EXCLUSION_MIN_AGE == 62

RECURSIVE SumSeq(_)
SumSeq(q) == IF q = << >> THEN 0 ELSE Head(q) + SumSeq(Tail(q))

\* w.get("nj_wages", w.get("wages", 0.0))
NjWagesField(w) ==
    IF w.nj_wages.tag = "missing"
    THEN (IF w.wages.tag = "missing" THEN Num(0) ELSE w.wages)
    ELSE w.nj_wages

\* (taxpayer.get("housing_status") or "").lower()
Lower(s) ==
    CASE s = "Homeowner" -> "homeowner"
      [] s = "Child" -> "child"
      [] s = "Tenant" -> "tenant"
      [] s = "Both" -> "both"
      [] OTHER -> s

\* The property-tax equivalent of lines 127-136, in dollars.
PropEquiv(status, prop_tax_paid, rent_paid) ==
    LET e == CASE status = "homeowner" -> prop_tax_paid
               [] status = "tenant" ->
                    (RENT_FACTOR_NUM * rent_paid) \div RENT_FACTOR_DEN
               [] OTHER -> 0
    IN  Min(PROP_DED_CAP, Max(0, e))

\* The pension exclusion of lines 121-124, in dollars.
PensionExclusion(fs, taxpayer_age, gi, pensions) ==
    IF taxpayer_age >= PENSION_EXCLUSION_MIN_AGE
       /\ gi <= PENSION_EXCLUSION_INCOME_LIMIT
    THEN Min(PENSION_EXCLUSION_MAX(fs), pensions) ELSE 0

\* The choice of lines 153-162: TRUE when Path A (deduction) is reported.
ChoosePathAReversed(net_tax_a, net_tax_b) == net_tax_a >= net_tax_b
ChoosePathA(net_tax_a, net_tax_b) == net_tax_a <= net_tax_b

\* The settlement of lines 188-189, in NjT ticks.
NjOwedNetOfEitc(nj_tax, nj_withheld, refund_component) ==
    Max(0, nj_tax - nj_withheld * NjT - refund_component)
NjOwed(nj_tax, nj_withheld, refund_component) ==
    Max(0, nj_tax - nj_withheld * NjT)
NjRefund(nj_tax, nj_withheld, refund_component) ==
    Max(0, nj_withheld * NjT - nj_tax) + refund_component

\* The EITC provider (module federal_eitc) as the engines see it: absent
\* (avail = FALSE; for compute_nj also: raising), or returning `ret` dollars.
Provider(avail, ret) == [avail |-> avail, ret |-> ret]

\* The try block of compute_nj, lines 166-182: NJ_EITC_RATE x the provider's
\* answer, 0 when the import or the call raises.  In NjT ticks.
NjEitc(prov) ==
    IF prov.avail THEN (NJ_EITC_NUM * prov.ret * NjT) \div NJ_EITC_DEN ELSE 0

\* NJ gross income before exclusions (line 112): wages, interest, dividends,
\* unemployment, net self-employment income and pensions of profile tp.
NjGiPreExclusionsWithSsa(tp, nj_wages, nec_net) ==
    nj_wages + safe_float(tp.interest) + safe_float(tp.dividends)
    + safe_float(tp.unemployment) + nec_net
    + safe_float(tp.pension_distributions) + safe_float(tp.ssa_benefits)
NjGiPreExclusions(tp, nj_wages, nec_net) ==
    nj_wages + safe_float(tp.interest) + safe_float(tp.dividends)
    + safe_float(tp.unemployment) + nec_net
    + safe_float(tp.pension_distributions)

\* The keys of the dict compute_nj returns (lines 191-210).
NjResultKeys ==
    {"l1z", "l2b", "l3a", "l7", "l8", "l11", "l12", "l15", "l16", "l25d",
     "l34", "l37", "_pt_equiv", "_pt_ded_used", "_pt_credit_used",
     "_pension_exclusion", "_nj_eitc"}

\* compute_nj_full.compute_nj.  Money lines ("1z" .. "15", "25d", _pt_equiv,
\* _pt_ded_used, _pension_exclusion) are in dollars; tax lines ("16", "34",
\* "37", _pt_credit_used, _nj_eitc and the path results) are in NjT ticks.
\* The pa_*/pb_* fields are the locals of the two paths, kept for the
\* properties; they are not keys of the returned dict.
compute_nj(tp, ws, prov) ==
    LET filing_status == FsGet(tp.filing_status)
        nj_wages == SumSeq([i \in 1..Len(ws) |-> safe_float(NjWagesField(ws[i]))])
        interest == safe_float(tp.interest)
        dividends == safe_float(tp.dividends)
        unemployment == safe_float(tp.unemployment)
        nec_income == safe_float(tp.nec_income)
        nec_expenses == safe_float(tp.nec_expenses)
        nec_net == Max(0, nec_income - nec_expenses)
        pensions == safe_float(tp.pension_distributions)
        nj_gi_pre_exclusions == NjGiPreExclusions(tp, nj_wages, nec_net)
        pers_ex == NJ_PERSONAL_EXEMPTION(filing_status)
        dep_count == Len(tp.dependents)
        dep_ex == NJ_DEP_EXEMPTION * dep_count
        base_exemptions == pers_ex + dep_ex
        taxpayer_age == age_on(tp.dob, NJ_TAX_YEAR)
        pension_exclusion ==
            PensionExclusion(filing_status, taxpayer_age,
                             nj_gi_pre_exclusions, pensions)
        status == Lower(tp.housing_status)
        prop_tax_paid == safe_float(tp.property_tax_paid)
        rent_paid == safe_float(tp.rent_paid)
        prop_equiv == PropEquiv(status, prop_tax_paid, rent_paid)
        \* Path A
        taxable_a == Max(0, nj_gi_pre_exclusions - base_exemptions
                            - pension_exclusion - prop_equiv)
        tax_a == nj_tax_from_brackets(taxable_a)
        credit_a == 0
        net_tax_a == Max(0, tax_a - credit_a)
        \* Path B
        taxable_b == Max(0, nj_gi_pre_exclusions - base_exemptions
                            - pension_exclusion)
        tax_b == nj_tax_from_brackets(taxable_b)
        pt_credit == IF PT_CREDIT_REFUNDABLE THEN FLAT_PT_CREDIT * NjT
                     ELSE Min(FLAT_PT_CREDIT * NjT, tax_b)
        net_tax_b == Max(0, tax_b - pt_credit)
        pathA == ChoosePathA(net_tax_a, net_tax_b)
        taxable == IF pathA THEN taxable_a ELSE taxable_b
        nj_tax == IF pathA THEN net_tax_a ELSE net_tax_b
        used_pt_ded == IF pathA THEN prop_equiv ELSE 0
        used_pt_credit == IF pathA THEN 0 ELSE pt_credit
        \* NJ EITC: the try block of lines 167-182
        nj_eitc == NjEitc(prov)
        refund_component == nj_eitc
        nj_withheld == SumSeq([i \in 1..Len(ws) |-> safe_float(ws[i].nj_withheld)])
    IN  [ l1z |-> nj_wages, l2b |-> interest, l3a |-> dividends,
          l7 |-> unemployment, l8 |-> nec_net,
          l11 |-> nj_gi_pre_exclusions,
          l12 |-> base_exemptions + pension_exclusion + used_pt_ded,
          l15 |-> taxable, l16 |-> nj_tax, l25d |-> nj_withheld,
          l34 |-> NjRefund(nj_tax, nj_withheld, refund_component),
          l37 |-> NjOwed(nj_tax, nj_withheld, refund_component),
          _pt_equiv |-> prop_equiv, _pt_ded_used |-> used_pt_ded,
          _pt_credit_used |-> used_pt_credit,
          _pension_exclusion |-> pension_exclusion, _nj_eitc |-> nj_eitc,
          pa_taxable |-> taxable_a, pa_net_tax |-> net_tax_a,
          pb_taxable |-> taxable_b, pb_net_tax |-> net_tax_b ]

\* ------------------------------------------------------------------------
\* compute_nj.py (v2)
\* ------------------------------------------------------------------------
EXEMPT_PERSONAL_EACH == 1000
EXEMPT_DEPENDENT_EACH == 1500
EXEMPT_OVER65_EACH == 1000
EXEMPT_BLIND_DISABLED_EACH == 1000
EXEMPT_VETERAN_EACH == 6000
PROPERTY_TAX_DED_LIMIT == 15000
PROPERTY_TAX_CREDIT_AMOUNT == 50

\* compute_nj._safe_num: None and blank give the default 0; "$" and ","
\* are stripped before float() (tag "moneytext"); other text gives 0.
_safe_num(x) == IF x.tag \in {"num", "moneytext"} THEN x.val ELSE 0

\* compute_nj._round_dollar on an amount of t ticks, den ticks per dollar:
\* int(round(x)), Python's round-half-to-even.
_round_dollar(t, den) ==
    LET q == t \div den
        r == t % den
    IN  IF 2 * r < den THEN q
        ELSE IF 2 * r > den THEN q + 1
        ELSE IF q % 2 = 0 THEN q ELSE q + 1

\* (filing_status or "").upper()
Upper(s) ==
    CASE s = "mfj" -> "MFJ"
      [] s = "mfs" -> "MFS"
      [] s = "qw" -> "QW"
      [] s = "single" -> "SINGLE"
      [] s = "married_joint" -> "MARRIED_JOINT"
      [] s = "married_separate" -> "MARRIED_SEPARATE"
      [] s = "head_household" -> "HEAD_HOUSEHOLD"
      [] s = "qual_widow" -> "QUAL_WIDOW"
      [] OTHER -> s

JointCodes == {"MFJ", "MFS", "QW"}

\* compute_nj.calculate_exemptions, in dollars
calculate_exemptions(data) ==
    LET fs == Upper(FsOrEmpty(data.filing_status))
        joint == fs \in JointCodes
        flag(f) == f \in data.exempt_flags
        dep == _safe_num(data.exempt_dependent_count)
    IN  EXEMPT_PERSONAL_EACH
        + (IF joint THEN EXEMPT_PERSONAL_EACH ELSE 0)
        + dep * EXEMPT_DEPENDENT_EACH
        + (IF flag("taxpayer_over65") THEN EXEMPT_OVER65_EACH ELSE 0)
        + (IF joint /\ flag("spouse_over65") THEN EXEMPT_OVER65_EACH ELSE 0)
        + (IF flag("taxpayer_blind_disabled")
           THEN EXEMPT_BLIND_DISABLED_EACH ELSE 0)
        + (IF joint /\ flag("spouse_blind_disabled")
           THEN EXEMPT_BLIND_DISABLED_EACH ELSE 0)
        + (IF flag("taxpayer_veteran") THEN EXEMPT_VETERAN_EACH ELSE 0)
        + (IF joint /\ flag("spouse_veteran") THEN EXEMPT_VETERAN_EACH ELSE 0)

\* w.get("state_wages_box16", 0) and the like
Get0(x) == IF x.tag = "missing" THEN Num(0) ELSE x

\* The choice of line 176: TRUE when the deduction route is taken.
V2TakeDeduction(tax_via_ded, credits_via_ded, tax_via_credit, credits_via_credit) ==
    (tax_via_ded - credits_via_ded) <= (tax_via_credit - credits_via_credit)

\* The settlement of lines 214-219: <<amount you owe, overpayment>>.
V2Settle(payments, tax_due) ==
    IF payments < tax_due
    THEN << tax_due - payments, 0 >>
    ELSE << 0, payments - tax_due >>

\* compute_nj.compute_nj (v2).  Every line is in whole dollars.  The fields
\* after "l80" are summary entries and locals of the two routes.
compute_nj_v2(tp, ws) ==
    LET fs == Upper(FsOrEmpty(tp.filing_status))
        line15_w2_nj_wages ==
            SumSeq([i \in 1..Len(ws) |-> _safe_num(Get0(ws[i].state_wages_box16))])
        line16a_interest == _safe_num(tp.interest_taxable)
        line17_dividends == _safe_num(tp.dividends_taxable)
        line27_total_income ==
            line15_w2_nj_wages + line16a_interest + line17_dividends
        line28c_exclusions == 0
        line29_nj_gross_income == Max(0, line27_total_income - line28c_exclusions)
        line13_total_exemptions == calculate_exemptions(tp)
        line30_exemption_amount == line13_total_exemptions
        line38_total_exemptions_and_deductions == line30_exemption_amount
        line39_taxable_income ==
            Max(0, line29_nj_gross_income - line38_total_exemptions_and_deductions)
        property_tax_paid == _safe_num(tp.property_tax_paid)
        prop_deduction == Min(property_tax_paid, PROPERTY_TAX_DED_LIMIT)
        brackets == _get_brackets(fs)
        \* (A) deduction route
        line41_property_tax_deduction == prop_deduction
        nj_taxable_via_ded ==
            Max(0, line39_taxable_income - line41_property_tax_deduction)
        tax_via_ded ==
            _round_dollar(_tax_from_brackets(nj_taxable_via_ded, brackets), NjT)
        credits_via_ded == 0
        \* (B) credit route
        nj_taxable_via_credit == line39_taxable_income
        tax_via_credit ==
            _round_dollar(_tax_from_brackets(nj_taxable_via_credit, brackets), NjT)
        credits_via_credit ==
            IF property_tax_paid > 0 THEN PROPERTY_TAX_CREDIT_AMOUNT ELSE 0
        ded == V2TakeDeduction(tax_via_ded, credits_via_ded,
                               tax_via_credit, credits_via_credit)
        chosen_line41 == IF ded THEN line41_property_tax_deduction ELSE 0
        precredit_tax == IF ded THEN tax_via_ded ELSE tax_via_credit
        extra_credits == IF ded THEN 0 ELSE credits_via_credit
        line42_nj_taxable_income ==
            IF ded THEN nj_taxable_via_ded ELSE nj_taxable_via_credit
        federal_eitc == _safe_num(tp.federal_eitc_amount)
        line_eitc_nj ==
            _round_dollar(federal_eitc * NJ_EITC_NUM, NJ_EITC_DEN)
        line43_tax == precredit_tax
        other_credits == extra_credits + line_eitc_nj
        line50_balance_of_tax == Max(0, line43_tax - other_credits)
        line54_total_tax_due == line50_balance_of_tax + 0 + 0 + 0
        line55_total_w2_withholding ==
            SumSeq([i \in 1..Len(ws) |-> _safe_num(Get0(ws[i].state_withheld_box17))])
        line66_total_withholdings_and_payments == line55_total_w2_withholding + 0
        settle == V2Settle(line66_total_withholdings_and_payments,
                           line54_total_tax_due)
        line67_amount_you_owe == settle[1]
        line68_overpayment == settle[2]
    IN  [ l15 |-> line15_w2_nj_wages, l16a |-> line16a_interest,
          l17 |-> line17_dividends, l27 |-> line27_total_income,
          l28c |-> line28c_exclusions, l29 |-> line29_nj_gross_income,
          l13 |-> line13_total_exemptions, l30 |-> line30_exemption_amount,
          l38 |-> line38_total_exemptions_and_deductions,
          l39 |-> line39_taxable_income,
          l41 |-> chosen_line41, l42 |-> line42_nj_taxable_income,
          l43 |-> line43_tax, l50 |-> line50_balance_of_tax,
          l54 |-> line54_total_tax_due,
          l55 |-> line55_total_w2_withholding,
          l66 |-> line66_total_withholdings_and_payments,
          l67 |-> line67_amount_you_owe, l68 |-> line68_overpayment,
          l79 |-> line68_overpayment, l80 |-> line68_overpayment,
          s_nj_eitc |-> line_eitc_nj,
          s_prop_tax_credit_used |-> (chosen_line41 = 0 /\ extra_credits > 0),
          prop_deduction |-> prop_deduction,
          tax_via_ded |-> tax_via_ded, tax_via_credit |-> tax_via_credit,
          credits_via_credit |-> credits_via_credit,
          extra_credits |-> extra_credits,
          nj_taxable_via_ded |-> nj_taxable_via_ded ]

\* ------------------------------------------------------------------------
\* compute_federal_full.py
\* ------------------------------------------------------------------------
TAX_YEAR_FromClock == IF call = NoCall THEN 2024 ELSE 2025
TAX_YEAR == 2024

STD_DED_UnknownIsZero(fs) ==
    CASE fs = "married_joint" -> 29200
      [] fs = "head_household" -> 21900
      [] fs = "qual_widow" -> 29200
      [] fs \in {"single", "married_separate"} -> 14600
      [] OTHER -> 0
STD_DED(fs) ==
    CASE fs = "married_joint" -> 29200
      [] fs = "head_household" -> 21900
      [] fs = "qual_widow" -> 29200
      [] OTHER -> 14600   \* single, married_separate, and .get(fs, single)

CTC_PER_CHILD == 2000
ACTC_REFUNDABLE_LIMIT_PER_CHILD == 1600
ACTC_EARNED_INCOME_FLOOR == 2500
\* ACTC_RATE = 0.15, in percent
ACTC_RATE == 15
STUDENT_LOAN_CAP == 2500
QUALIFYING_CHILD_AGE == 17

CTC_PHASEOUT_START(fs) ==
    CASE fs = "married_joint" -> 400000
      [] fs = "qual_widow" -> 400000
      [] OTHER -> 200000  \* the other statuses, and .get(fs, single)
CTC_PHASEOUT_STEP == 50
CTC_PHASEOUT_PER == 1000

\* SSA_THRESHOLDS: <<base, additional>> in dollars
SSA_THRESHOLDS(fs) ==
    CASE fs = "married_joint" -> <<32000, 44000>>
      [] fs = "qual_widow" -> <<32000, 44000>>
      [] fs = "married_separate" -> <<0, 0>>
      [] OTHER -> <<25000, 34000>>   \* single, head_household, .get default

\* compute_federal_full.taxable_ssa.  Arguments in dollars, result in FedM
\* ticks: 0.5 dollar is 20 ticks, 0.85 dollar is 34 ticks, and the
\* provisional income is a multiple of 20 ticks.
taxable_ssa_HalfOnly(agi_excl_ssa, ssa_total, filing_status) ==
    Min((FedM \div 2) * ssa_total,
        Max(0, (agi_excl_ssa * FedM + (FedM \div 2) * ssa_total
                - SSA_THRESHOLDS(filing_status)[1] * FedM) \div 2))
taxable_ssa(agi_excl_ssa, ssa_total, filing_status) ==
    IF ssa_total <= 0 THEN 0
    ELSE LET base == SSA_THRESHOLDS(filing_status)[1] * FedM
             addl == SSA_THRESHOLDS(filing_status)[2] * FedM
             half == (FedM \div 2) * ssa_total
             most == ((85 * FedM) \div 100) * ssa_total
             provisional == agi_excl_ssa * FedM + half
         IN  IF filing_status = "married_separate"
             THEN Min(most, provisional)
             ELSE IF provisional <= base THEN 0
             ELSE IF provisional <= addl
                  THEN Min(half, (provisional - base) \div 2)
             ELSE LET part1 == (85 * (provisional - addl)) \div 100
                      part2 == Min(half, (addl - base) \div 2)
                  IN  Min(most, part1 + part2)

\* The test of line 192 on one dependent record; a missing relationship
\* defaults to "child".
IsQualifyingChild(d) ==
    /\ Lower(IF d.relationship = "<missing>" THEN "child" ELSE d.relationship)
         = "child"
    /\ age_on(d.dob, TAX_YEAR) < QUALIFYING_CHILD_AGE

\* The loop of lines 189-193.
QualifyingChildren(deps) ==
    Cardinality({i \in 1..Len(deps) : IsQualifyingChild(deps[i])})

\* Lines 196-200: the Child Tax Credit after phase-out, in dollars; agi in
\* FedM ticks.  int(over // 1000.0) is the number of whole $1,000 over.
CtcAfterPhaseNoFloor(agi, filing_status, qualifying_children) ==
    LET ctc_total_cap == CTC_PER_CHILD * qualifying_children
        over == agi - CTC_PHASEOUT_START(filing_status) * FedM
        ctc_phaseout == (over \div (CTC_PHASEOUT_PER * FedM)) * CTC_PHASEOUT_STEP
    IN  Max(0, ctc_total_cap - ctc_phaseout)
CtcAfterPhase(agi, filing_status, qualifying_children) ==
    LET ctc_total_cap == CTC_PER_CHILD * qualifying_children
        over == Max(0, agi - CTC_PHASEOUT_START(filing_status) * FedM)
        ctc_phaseout == (over \div (CTC_PHASEOUT_PER * FedM)) * CTC_PHASEOUT_STEP
    IN  Max(0, ctc_total_cap - ctc_phaseout)

\* Nonrefundable CTC used (line 203).
NonrefCtcUsedWhole(ctc_after_phase, tax_before_credits) == ctc_after_phase
NonrefCtcUsed(ctc_after_phase, tax_before_credits) ==
    Min(ctc_after_phase, tax_before_credits)

\* refundable_credits of the settlement (line 230).
RefundableCreditsCtcOnly(refundable_ctc, eitc) == refundable_ctc
RefundableCredits(refundable_ctc, eitc) == refundable_ctc + eitc

\* _eitc(...) if EITC_AVAILABLE else 0.0 (lines 217-224, with the import of
\* lines 23-33), in FedT ticks.
FedEitcAbsentPaysOne(prov) == IF prov.avail THEN prov.ret * FedT ELSE FedT
FedEitc(prov) == IF prov.avail THEN prov.ret * FedT ELSE 0

\* The settlement of lines 232-233, in FedT ticks.
FedOwedIgnoresCredits(withheld, refundable_credits, net_tax) ==
    Max(0, net_tax - withheld)
FedOwed(withheld, refundable_credits, net_tax) ==
    Max(0, net_tax - (withheld + refundable_credits))
FedRefundGross(withheld, refundable_credits, net_tax) ==
    withheld + refundable_credits
FedRefund(withheld, refundable_credits, net_tax) ==
    Max(0, withheld + refundable_credits - net_tax)

\* compute_federal_full.compute_federal.  Lines "1z", "2b", "3a", "7", "8",
\* "12" and "25d" are in dollars; "5b", "11" and "15" in FedM ticks; "16",
\* "19", "27", "34", "37" and the _ref_* keys in FedT ticks.
\* qualifying_children is a local kept for the properties.
compute_federal(tp, ws, prov) ==
    LET filing_status == FsGet(tp.filing_status)
        std_ded == STD_DED(filing_status)
        wages == SumSeq([i \in 1..Len(ws) |-> safe_float(ws[i].wages)])
        nec_income == safe_float(tp.nec_income)
        nec_expenses == safe_float(tp.nec_expenses)
        nec_net == Max(0, nec_income - nec_expenses)
        earned_income == wages + nec_net
        interest == safe_float(tp.interest)
        dividends == safe_float(tp.dividends)
        unemployment == safe_float(tp.unemployment)
        ssa_total == safe_float(tp.ssa_benefits)
        pensions == safe_float(tp.pension_distributions)
        stu_loan == Min(STUDENT_LOAN_CAP, safe_float(tp.student_loan_interest))
        ira_contrib == safe_float(tp.ira_contrib)
        hsa_contrib == safe_float(tp.hsa_contrib)
        above_line == stu_loan + ira_contrib + hsa_contrib
        agi_excl_ssa == Max(0, earned_income + interest + dividends
                               + unemployment + pensions - above_line)
        ssa_tax == taxable_ssa(agi_excl_ssa, ssa_total, filing_status)
        agi == agi_excl_ssa * FedM + ssa_tax
        taxable_income == Max(0, agi - std_ded * FedM)
        tax_before_credits == tax_from_brackets(taxable_income, filing_status)
        qualifying_children == QualifyingChildren(tp.dependents)
        ctc_after_phase ==
            CtcAfterPhase(agi, filing_status, qualifying_children) * FedT
        nonref_ctc_used == NonrefCtcUsed(ctc_after_phase, tax_before_credits)
        tax_after_nonref == Max(0, tax_before_credits - nonref_ctc_used)
        earned_for_actc == earned_income
        actc_income_base == Max(0, earned_for_actc - ACTC_EARNED_INCOME_FLOOR)
        actc_earned_amount == ACTC_RATE * actc_income_base * FedM
        actc_per_child_cap ==
            ACTC_REFUNDABLE_LIMIT_PER_CHILD * qualifying_children * FedT
        ctc_remaining == Max(0, ctc_after_phase - nonref_ctc_used)
        refundable_ctc ==
            Min3(actc_earned_amount, actc_per_child_cap, ctc_remaining)
        eitc == FedEitc(prov)
        withheld ==
            SumSeq([i \in 1..Len(ws) |-> safe_float(ws[i].federal_withheld)])
        refundable_credits == RefundableCredits(refundable_ctc, eitc)
        net_tax == tax_after_nonref
    IN  [ l1z |-> wages, l2b |-> interest, l3a |-> dividends,
          l5b |-> ssa_tax, l7 |-> unemployment, l8 |-> nec_net,
          l11 |-> agi, l12 |-> std_ded, l15 |-> taxable_income,
          l16 |-> tax_before_credits, l19 |-> nonref_ctc_used,
          l25d |-> withheld, l27 |-> refundable_ctc + eitc,
          l34 |-> FedRefund(withheld * FedT, refundable_credits, net_tax),
          l37 |-> FedOwed(withheld * FedT, refundable_credits, net_tax),
          _ref_eitc_used |-> eitc, _ref_refundable_ctc |-> refundable_ctc,
          _ref_ctc_after_phase |-> ctc_after_phase,
          qualifying_children |-> qualifying_children ]

\* The keys of the dict compute_federal returns (lines 235-255).
FedResultKeys ==
    {"l1z", "l2b", "l3a", "l5b", "l7", "l8", "l11", "l12", "l15", "l16",
     "l19", "l25d", "l27", "l34", "l37", "_ref_eitc_used",
     "_ref_refundable_ctc", "_ref_ctc_after_phase"}

\* ------------------------------------------------------------------------
\* compute_federal.py (stub)
\* ------------------------------------------------------------------------
STUB_STD_DED == 13850
\* the flat 10% tax, in percent
STUB_RATE == 10

\* float(w.get(key, 0) or 0) raises on text that is not a number
StubRaises(x) == x.tag = "text"
StubFloat(x) == IF x.tag = "num" THEN x.val ELSE 0

\* compute_federal.compute_federal.  "1z", "11", "12", "15", "25d" in
\* dollars; "16", "34", "37" in FedT ticks.
compute_federal_stub(tp, ws) ==
    LET wages == SumSeq([i \in 1..Len(ws) |-> StubFloat(ws[i].wages_box1)])
        withheld == SumSeq([i \in 1..Len(ws) |-> StubFloat(ws[i].fed_withheld_box2)])
        tax == wages * STUB_RATE * FedM
        refund == Max(withheld * FedT - tax, 0)
        amount_owed == Max(tax - withheld * FedT, 0)
    IN  [ l1z |-> wages, l2b |-> 0, l3a |-> 0, l3b |-> 0, l8 |-> 0,
          l11 |-> wages, l12 |-> STUB_STD_DED,
          l15 |-> Max(wages - STUB_STD_DED, 0),
          l16 |-> tax, l25d |-> withheld, l27 |-> 0,
          l34 |-> refund, l37 |-> amount_owed ]

\* The stub raises ValueError when a wage statement field is such text.
StubCallRaises(ws) ==
    \E i \in 1..Len(ws) :
        StubRaises(ws[i].wages_box1) \/ StubRaises(ws[i].fed_withheld_box2)

\* ------------------------------------------------------------------------
\* Profiles and wage statements
\* ------------------------------------------------------------------------
\* A profile dict with no key set.  filing_status "<missing>" is the absent
\* key; dependents << >> is the absent key, None or [].
BlankTaxpayer ==
    [ kind |-> "profile", filing_status |-> "<missing>", dob |-> NoDob,
      dependents |-> << >>,
      interest |-> Missing, dividends |-> Missing, unemployment |-> Missing,
      nec_income |-> Missing, nec_expenses |-> Missing,
      ssa_benefits |-> Missing, pension_distributions |-> Missing,
      student_loan_interest |-> Missing, ira_contrib |-> Missing,
      hsa_contrib |-> Missing,
      housing_status |-> "", property_tax_paid |-> Missing,
      rent_paid |-> Missing,
      interest_taxable |-> Missing, dividends_taxable |-> Missing,
      exempt_dependent_count |-> Missing, exempt_flags |-> {},
      federal_eitc_amount |-> Missing ]

BlankW2 ==
    [ wages |-> Missing, federal_withheld |-> Missing,
      nj_wages |-> Missing, nj_withheld |-> Missing,
      state_wages_box16 |-> Missing, state_withheld_box17 |-> Missing,
      wages_box1 |-> Missing, fed_withheld_box2 |-> Missing ]

\* A wage statement with the keys of the full engines (wizard.collect_w2s).
FullW2(wages, federal_withheld, nj_wages, nj_withheld) ==
    [BlankW2 EXCEPT !.wages = Num(wages),
                    !.federal_withheld = Num(federal_withheld),
                    !.nj_wages = Num(nj_wages),
                    !.nj_withheld = Num(nj_withheld)]

\* A wage statement with the keys of the v2 NJ engine.
V2W2(box16, box17) ==
    [BlankW2 EXCEPT !.state_wages_box16 = Num(box16),
                    !.state_withheld_box17 = Num(box17)]

Dependent(relationship, dob) == [relationship |-> relationship, dob |-> dob]

\* Largest number of dependents on a profile.
MaxDependents == 2

Dependents(n, dob) == [i \in 1..n |-> Dependent("child", dob)]

\* The answers of the EITC provider: absent, or a credit in dollars.
Providers == {Provider(FALSE, 0), Provider(TRUE, 0), Provider(TRUE, 1000)}

\* ------------------------------------------------------------------------
\* Specification of the NJ engines
\* ------------------------------------------------------------------------
NjW2Lists ==
    { << >>,
      << FullW2(3000, 0, 3000, 0) >>,
      << FullW2(30000, 3000, 30000, 0) >>,
      << FullW2(30000, 3000, 30000, 400) >>,
      << FullW2(30000, 3000, 30000, 2000) >>,
      << [FullW2(30000, 3000, 0, 400) EXCEPT !.nj_wages = Missing] >>,
      << FullW2(60000, 6000, 60000, 2000), FullW2(45000, 4000, 45000, 1000) >> }

NjDobs ==
    { NoDob, Dob("iso", 1962, 12, 31), Dob("iso", 1963, 1, 1),
      Dob("us", 1990, 3, 15), Dob("iso", 1990, 2, 30) }

\* <<housing_status, property_tax_paid, rent_paid>>
NjHousing ==
    { <<"", 0, 0>>, <<"", 5000, 0>>, <<"homeowner", 100, 0>>,
      <<"homeowner", 5000, 0>>, <<"homeowner", 20000, 0>>,
      <<"tenant", 0, 20000>>, <<"Tenant", 0, 100000>>,
      <<"both", 5000, 20000>> }

NjFullProfiles ==
    { [BlankTaxpayer EXCEPT
          !.filing_status = fs, !.dob = dob,
          !.dependents = Dependents(n, Dob("iso", 2015, 5, 5)),
          !.interest = Num(oi[1]), !.dividends = Num(0),
          !.unemployment = Num(0),
          !.nec_income = Num(oi[2]), !.nec_expenses = Num(oi[3]),
          !.ssa_benefits = Num(0),
          !.pension_distributions = Num(pension),
          !.housing_status = h[1], !.property_tax_paid = Num(h[2]),
          !.rent_paid = Num(h[3])] :
        fs \in {"single", "married_joint", "nonresident_alien"},
        dob \in NjDobs, n \in {0, MaxDependents},
        oi \in {<<0, 0, 0>>, <<200, 8000, 5000>>},
        pension \in {0, 70000, 80000}, h \in NjHousing }

V2W2Lists ==
    { << >>,
      << V2W2(3000, 0) >>,
      << V2W2(30000, 0) >>,
      << V2W2(30000, 400) >>,
      << V2W2(30000, 2000) >>,
      << V2W2(60000, 2000), V2W2(45000, 1000) >> }

NjV2Profiles ==
    { [BlankTaxpayer EXCEPT
          !.filing_status = fs,
          !.interest_taxable = Num(interest), !.dividends_taxable = Num(0),
          !.exempt_dependent_count = Num(n), !.exempt_flags = flags,
          !.property_tax_paid = Num(ptp),
          !.federal_eitc_amount = Num(eitc)] :
        fs \in {"MFJ", "mfs", "single"}, interest \in {0, 200},
        n \in {0, MaxDependents},
        flags \in {{}, {"taxpayer_over65", "spouse_veteran"}},
        ptp \in {0, 100, 5000, 20000}, eitc \in {0, 1000} }

InitNJ ==
    /\ br = [pc |-> "idle"]
    /\ \/ taxpayer \in NjFullProfiles /\ w2s \in NjW2Lists
       \/ taxpayer \in NjV2Profiles /\ w2s \in V2W2Lists
    /\ call = NoCall
    /\ earlier = NoCall

\* compute_nj of compute_nj_full.py is called; the EITC provider answers.
ComputeNJFull ==
    /\ taxpayer # NoProfile
    /\ \E prov \in Providers :
         call' = [engine |-> "nj_full", prov |-> prov, raised |-> FALSE,
                  out |-> compute_nj(taxpayer, w2s, prov)]
    /\ earlier' = call
    /\ UNCHANGED <<br, taxpayer, w2s>>

\* compute_nj of compute_nj.py (v2) is called; it uses no provider.
ComputeNJv2 ==
    /\ taxpayer # NoProfile
    /\ call' = [engine |-> "nj_v2", prov |-> Provider(FALSE, 0),
                raised |-> FALSE,
                out |-> compute_nj_v2(taxpayer, w2s)]
    /\ earlier' = call
    /\ UNCHANGED <<br, taxpayer, w2s>>

NextNJ == ComputeNJFull \/ ComputeNJv2

SpecNJ == InitNJ /\ [][NextNJ]_vars

IsFull == call.engine = "nj_full"
IsV2 == call.engine = "nj_v2"

\* C1: the result of the NJ computation never has the refund (line "34" of
\* the full engine, line "80" of v2) and the amount owed (line "37", resp.
\* "67") both greater than zero, whatever the EITC provider returns.
C1_RefundOwedExclusive ==
    /\ IsFull => ~(call.out.l34 > 0 /\ call.out.l37 > 0)
    /\ IsV2 => ~(call.out.l80 > 0 /\ call.out.l67 > 0)

\* C3: in the full NJ engine the amount owed is max(0, tax - withholding)
\* whatever the provider returns, two runs on the same profile that differ
\* only in the federal EITC give the same amount owed, and the state EITC
\* (0.40 x federal EITC) is added only to the refund, which is
\* max(0, withholding - tax) + state EITC.
C3_EitcOnlyInRefund ==
    IsFull =>
      LET o == call.out
          state_eitc == IF call.prov.avail
                        THEN (NJ_EITC_NUM * call.prov.ret * NjT) \div NJ_EITC_DEN
                        ELSE 0
      IN  /\ o.l37 = Max(0, o.l16 - o.l25d * NjT)
          /\ o._nj_eitc = state_eitc
          /\ o.l34 = Max(0, o.l25d * NjT - o.l16) + state_eitc
          /\ earlier.engine = "nj_full" => earlier.out.l37 = o.l37

\* C3 witness: two runs of the full engine on a profile that owes tax, one
\* with a positive federal EITC and one without; the refunds differ.
C3_Witness ==
    /\ IsFull /\ earlier.engine = "nj_full"
    /\ call.prov.avail /\ call.prov.ret > 0
    /\ earlier.prov.avail /\ earlier.prov.ret = 0
    /\ call.out.l37 > 0
    /\ call.out.l34 # earlier.out.l34

\* The two path results recomputed from the returned lines of the full
\* engine: line "12" less the deduction used is exemptions + exclusion.
FullPathANet(o) ==
    nj_tax_from_brackets(Max(0, o.l11 - (o.l12 - o._pt_ded_used) - o._pt_equiv))
FullPathBNet(o) ==
    LET tax_b == nj_tax_from_brackets(Max(0, o.l11 - (o.l12 - o._pt_ded_used)))
    IN  tax_b - Min(FLAT_PT_CREDIT * NjT, tax_b)

\* The two route results of v2 recomputed from its lines and the profile;
\* the flat credit is not refundable (line "50" is floored at 0).
V2PathANet(o, tp) ==
    _round_dollar(
        _tax_from_brackets(
            Max(0, o.l39 - Min(_safe_num(tp.property_tax_paid),
                               PROPERTY_TAX_DED_LIMIT)),
            _get_brackets(Upper(FsOrEmpty(tp.filing_status)))), NjT)
V2PathBNet(o, tp) ==
    Max(0, _round_dollar(
               _tax_from_brackets(
                   o.l39, _get_brackets(Upper(FsOrEmpty(tp.filing_status)))), NjT)
           - (IF _safe_num(tp.property_tax_paid) > 0
              THEN PROPERTY_TAX_CREDIT_AMOUNT ELSE 0))
\* The net tax of the route v2 reports: line "43" less the flat credit when
\* the summary says the credit was used.
V2ReportedNet(o) ==
    Max(0, o.l43 - (IF o.s_prop_tax_credit_used
                    THEN PROPERTY_TAX_CREDIT_AMOUNT ELSE 0))

\* C4: the net tax the NJ computation reports is the smaller of the Path A
\* net tax (property-tax equivalent deducted) and the Path B net tax (flat
\* credit subtracted): it equals one of the two and is <= the other.
C4_ChosenIsMin ==
    /\ IsFull =>
         LET a == FullPathANet(call.out)
             b == FullPathBNet(call.out)
         IN  /\ call.out.l16 \in {a, b}
             /\ call.out.l16 <= a /\ call.out.l16 <= b
             /\ call.out.pa_net_tax = a /\ call.out.pb_net_tax = b
    /\ IsV2 =>
         LET a == V2PathANet(call.out, taxpayer)
             b == V2PathBNet(call.out, taxpayer)
             n == V2ReportedNet(call.out)
         IN  n \in {a, b} /\ n <= a /\ n <= b

\* C4 witnesses: a full-engine run where the credit path is strictly
\* cheaper and is reported, and one where the deduction path is.
C4_Witness ==
    /\ IsFull
    /\ call.out.pb_net_tax < call.out.pa_net_tax
    /\ call.out.l16 = call.out.pb_net_tax
    /\ call.out._pt_credit_used > 0

\* C5: whenever Path A and Path B give equal net tax, the deduction path is
\* the one reported: the taxable income is Path A's, the deduction used is
\* the capped property-tax equivalent and the credit used is 0.
C5_TieTakesDeduction ==
    /\ (IsFull /\ FullPathANet(call.out) = FullPathBNet(call.out)) =>
         /\ call.out.l15 = call.out.pa_taxable
         /\ call.out._pt_ded_used = call.out._pt_equiv
         /\ call.out._pt_credit_used = 0
    /\ (IsV2 /\ V2PathANet(call.out, taxpayer) = V2PathBNet(call.out, taxpayer)) =>
         /\ call.out.l42 = call.out.nj_taxable_via_ded
         /\ call.out.l41 = call.out.prop_deduction
         /\ ~call.out.s_prop_tax_credit_used

\* The property-tax equivalent the specification prescribes, in dollars.
SpecPropEquiv(tp) ==
    LET status == Lower(tp.housing_status)
        paid == safe_float(tp.property_tax_paid)
        rent == (RENT_FACTOR_NUM * safe_float(tp.rent_paid)) \div RENT_FACTOR_DEN
    IN  Min(PROP_DED_CAP,
            CASE status = "homeowner" -> paid
              [] status = "tenant" -> rent
              [] status = "both" -> paid + rent
              [] OTHER -> 0)

\* C6: the property-tax equivalent is the property tax paid for a
\* homeowner, 0.18 x rent for a tenant, the sum of the two for status
\* "both" and zero for none, in every case capped at 15,000.
C6_PropEquivalent ==
    IsFull => call.out._pt_equiv = SpecPropEquiv(taxpayer)

\* The taxpayer's age on December 31 of the tax year, when the profile
\* carries a date of birth: every birthday of the year has passed by then.
HasBirthDate(dob) == dob.fmt # "empty" /\ ValidDate(dob.y, dob.m, dob.d)
AgeOnCutoff(dob) == NJ_TAX_YEAR - dob.y

\* C7: for every profile the NJ pension exclusion is non-zero only if the
\* taxpayer's age on December 31 of the tax year is at least 62 and the
\* pre-exclusion gross income is at most 100,000; when granted it is
\* min(per-status maximum, pension distributions).
C7_PensionExclusionGuard ==
    IsFull =>
      LET o == call.out
          old_enough == HasBirthDate(taxpayer.dob)
                        /\ AgeOnCutoff(taxpayer.dob) >= PENSION_EXCLUSION_MIN_AGE
          under_ceiling == o.l11 <= PENSION_EXCLUSION_INCOME_LIMIT
      IN  /\ o._pension_exclusion # 0 => (old_enough /\ under_ceiling)
          /\ (old_enough /\ under_ceiling) =>
               o._pension_exclusion =
                 Min(PENSION_EXCLUSION_MAX(FsGet(taxpayer.filing_status)),
                     safe_float(taxpayer.pension_distributions))

\* ------------------------------------------------------------------------
\* Specification of the federal engines
\* ------------------------------------------------------------------------
\* A wage statement with the keys of the federal stub.
StubW2(box1, box2) ==
    [BlankW2 EXCEPT !.wages_box1 = Num(box1), !.fed_withheld_box2 = Num(box2)]

FedW2Lists ==
    { << >>,
      << FullW2(3000, 0, 3000, 0) >>,
      << FullW2(50000, 4000, 50000, 1000) >>,
      << FullW2(50000, 4016, 50000, 1000) >>,
      << FullW2(50000, 6000, 50000, 1000) >>,
      << FullW2(60000, 6000, 60000, 2000), FullW2(45000, 4000, 45000, 1000) >>,
      << FullW2(250000, 50000, 250000, 9000) >> }

StubW2Lists ==
    { << >>,
      << StubW2(30000, 2000) >>,
      << StubW2(30000, 3000) >>,
      << StubW2(30000, 4000) >>,
      << StubW2(60000, 6000), StubW2(45000, 4000) >>,
      << [StubW2(30000, 0) EXCEPT !.fed_withheld_box2 = NoneVal] >> }

\* The dependents lists of the federal profiles: children born either side
\* of the age-17 cutoff, a date in the wizard's format, another relative.
FedDependents ==
    { << >>,
      << Dependent("child", Dob("iso", 2015, 5, 5)) >>,
      << Dependent("child", Dob("iso", 2007, 12, 31)) >>,
      << Dependent("Child", Dob("iso", 2008, 1, 1)) >>,
      << Dependent("parent", Dob("iso", 1950, 6, 15)) >>,
      << Dependent("child", Dob("iso", 2015, 5, 5)),
         Dependent("child", Dob("us", 2016, 7, 4)) >>,
      Dependents(MaxDependents, Dob("iso", 2012, 2, 29)) }

\* <<interest, ssa_benefits, pension_distributions, nec_income, nec_expenses>>
FedOtherIncome ==
    { <<0, 0, 0, 0, 0>>, <<200, 20000, 10000, 0, 0>>,
      <<0, 40000, 0, 8000, 5000>> }

\* <<student_loan_interest, ira_contrib, hsa_contrib>>
FedAdjustments == { <<0, 0, 0>>, <<3000, 1000, 500>> }

FedProfile(fs, deps, oi, adj) ==
    [BlankTaxpayer EXCEPT
        !.filing_status = fs, !.dob = Dob("iso", 1980, 1, 1),
        !.dependents = deps,
        !.interest = Num(oi[1]), !.dividends = Num(0),
        !.unemployment = Num(0), !.ssa_benefits = Num(oi[2]),
        !.pension_distributions = Num(oi[3]),
        !.nec_income = Num(oi[4]), !.nec_expenses = Num(oi[5]),
        !.student_loan_interest = Num(adj[1]), !.ira_contrib = Num(adj[2]),
        !.hsa_contrib = Num(adj[3])]

FedProfiles ==
    { FedProfile(fs, deps, oi, adj) :
        fs \in {"single", "married_joint", "married_separate",
                "nonresident_alien"},
        deps \in FedDependents, oi \in FedOtherIncome, adj \in FedAdjustments }

InitFed ==
    /\ br = [pc |-> "idle"]
    /\ \/ taxpayer \in FedProfiles /\ w2s \in FedW2Lists
       \/ taxpayer = BlankTaxpayer /\ w2s \in StubW2Lists
    /\ call = NoCall
    /\ earlier = NoCall

\* compute_federal of compute_federal_full.py is called; EITC_AVAILABLE and
\* the provider's answer are the environment's.
ComputeFederalFull ==
    /\ taxpayer # NoProfile
    /\ \E prov \in Providers :
         call' = [engine |-> "fed_full", prov |-> prov, raised |-> FALSE,
                  out |-> compute_federal(taxpayer, w2s, prov)]
    /\ earlier' = call
    /\ UNCHANGED <<br, taxpayer, w2s>>

\* compute_federal of compute_federal.py (stub) is called.
ComputeFederalStub ==
    /\ taxpayer # NoProfile
    /\ call' = [engine |-> "fed_stub", prov |-> Provider(FALSE, 0),
                raised |-> StubCallRaises(w2s),
                out |-> compute_federal_stub(taxpayer, w2s)]
    /\ earlier' = call
    /\ UNCHANGED <<br, taxpayer, w2s>>

NextFed == ComputeFederalFull \/ ComputeFederalStub

SpecFed == InitFed /\ [][NextFed]_vars

IsFed == call.engine = "fed_full"
IsStub == call.engine = "fed_stub" /\ ~call.raised

\* C2: the result of compute_federal (full engine and stub) has exactly one
\* of refund (line "34") and amount owed (line "37") non-zero, and both are
\* zero only when withholding plus refundable credits equals the tax after
\* nonrefundable credits.
C2_ExactlyOneOfRefundOwed ==
    (IsFed \/ IsStub) =>
      LET o == call.out
          paid == o.l25d * FedT + o.l27
          net == IF IsFed THEN o.l16 - o.l19 ELSE o.l16
      IN  /\ ~(o.l34 # 0 /\ o.l37 # 0)
          /\ (o.l34 = 0 /\ o.l37 = 0) <=> (paid = net)
          /\ paid > net => o.l34 = paid - net
          /\ paid < net => o.l37 = net - paid

\* C2 witness: a full-engine run with a refundable credit paid on top of a
\* withholding that alone does not cover the tax, ending in a refund.
C2_Witness ==
    /\ IsFed
    /\ call.out.l27 > 0
    /\ call.out.l25d * FedT < call.out.l16 - call.out.l19
    /\ call.out.l34 > 0 /\ call.out.l37 = 0

\* The number of dependents of the profile that are children whose date of
\* birth the engine can read and whose age, counted by `age`, is under 17.
ChildrenUnder17(deps, age(_)) ==
    Cardinality({i \in 1..Len(deps) :
                   /\ Lower(deps[i].relationship) = "child"
                   /\ deps[i].dob.fmt = "iso"
                   /\ ValidDate(deps[i].dob.y, deps[i].dob.m, deps[i].dob.d)
                   /\ age(deps[i].dob) < QUALIFYING_CHILD_AGE})

\* Age on December 31 when a birthday on that day does not yet count.
AgeBirthdayNotCounted(dob) ==
    TAX_YEAR - dob.y - (IF dob.m = 12 /\ dob.d = 31 THEN 1 ELSE 0)
\* Age on December 31 when a birthday on that day counts.
AgeBirthdayCounted(dob) == TAX_YEAR - dob.y

\* C8 as stated: age_on counts a person whose birthday falls on the cutoff
\* date at the age before that birthday, so a child born on December 31 of
\* (tax year - 17) is under 17 and is counted as a qualifying child.
C8_CutoffBirthdayNotCounted ==
    IsFed =>
      call.out.qualifying_children =
        ChildrenUnder17(taxpayer.dependents, AgeBirthdayNotCounted)

\* C8 amended: age_on counts a birthday on the cutoff date at the age
\* reached that day (tax year - birth year), so a child born on December 31
\* of (tax year - 17) is 17 on the cutoff date and is not a qualifying
\* child, while a child born on January 1 of (tax year - 16) is.
C8_CutoffBirthdayCounted ==
    IsFed =>
      call.out.qualifying_children =
        ChildrenUnder17(taxpayer.dependents, AgeBirthdayCounted)

\* C8 witness: a run on a profile whose only dependent is a child born on
\* December 31, 2007; no qualifying child is counted and no credit given.
C8_Witness ==
    /\ IsFed
    /\ Len(taxpayer.dependents) = 1
    /\ taxpayer.dependents[1].dob = Dob("iso", TAX_YEAR - 17, 12, 31)
    /\ Lower(taxpayer.dependents[1].relationship) = "child"
    /\ call.out.qualifying_children = 0
    /\ call.out._ref_ctc_after_phase = 0

\* ------------------------------------------------------------------------
\* Specification of the Child Tax Credit phase-out: compute_federal called
\* again and again on one profile with different wage statements
\* ------------------------------------------------------------------------
\* Wages, in dollars, that put the AGI below, at and above the phase-out
\* thresholds (200,000 and 400,000), one dollar short of a full $1,000 over
\* them and far enough over them for the credit to be gone.
CtcWages == {150000, 200000, 200999, 201000, 250000,
             400000, 400999, 401000, 450000}

CtcW2Lists == { << FullW2(w, 20000, w, 5000) >> : w \in CtcWages }

CtcProfiles ==
    { FedProfile(fs, Dependents(n, Dob("iso", 2015, 5, 5)),
                 <<0, 0, 0, 0, 0>>, <<0, 0, 0>>) :
        fs \in {"single", "married_joint", "nonresident_alien"},
        n \in 0..MaxDependents }

InitCtc ==
    /\ br = [pc |-> "idle"]
    /\ taxpayer \in CtcProfiles
    /\ w2s = << >>
    /\ call = NoCall
    /\ earlier = NoCall

\* compute_federal of compute_federal_full.py is called with the profile
\* and a list of wage statements.
ComputeFederalWith ==
    /\ taxpayer # NoProfile
    /\ \E ws \in CtcW2Lists : \E prov \in Providers :
         /\ w2s' = ws
         /\ call' = [engine |-> "fed_full", prov |-> prov, raised |-> FALSE,
                     out |-> compute_federal(taxpayer, ws, prov)]
    /\ earlier' = call
    /\ UNCHANGED <<br, taxpayer>>

NextCtc == ComputeFederalWith

SpecCtc == InitCtc /\ [][NextCtc]_vars

\* C9: for a fixed filing status and number of qualifying children the
\* Child Tax Credit after phase-out equals the full tentative amount
\* (2,000 x qualifying children) for every AGI at or below the phase-out
\* threshold, and of two runs the one with the larger AGI, above the
\* threshold, never has the larger credit.
C9_CtcPhaseOutMonotone ==
    IsFed =>
      LET o == call.out
          threshold == CTC_PHASEOUT_START(FsGet(taxpayer.filing_status)) * FedM
          tentative == CTC_PER_CHILD * o.qualifying_children * FedT
      IN  /\ o.l11 <= threshold => o._ref_ctc_after_phase = tentative
          /\ o._ref_ctc_after_phase <= tentative
          /\ ( /\ earlier.engine = "fed_full"
               /\ earlier.out.qualifying_children = o.qualifying_children
               /\ earlier.out.l11 <= o.l11
               /\ o.l11 > threshold )
             => o._ref_ctc_after_phase <= earlier.out._ref_ctc_after_phase

\* C9 witness: married-joint with two qualifying children, first at an AGI
\* of exactly 400,000 (credit 4,000), then at 401,000 (credit 3,950).
C9_Witness ==
    /\ IsFed /\ earlier.engine = "fed_full"
    /\ taxpayer.filing_status = "married_joint"
    /\ call.out.qualifying_children = 2
    /\ earlier.out.l11 = 400000 * FedM
    /\ earlier.out._ref_ctc_after_phase = 4000 * FedT
    /\ call.out.l11 = 401000 * FedM
    /\ call.out._ref_ctc_after_phase = 3950 * FedT

\* ------------------------------------------------------------------------
\* Specification of the walk over the tiers
\* ------------------------------------------------------------------------
\* Amounts of the tier walk: those of the evaluation, and a negative one.
TierAmounts(ev, key) == Amounts(ev, key) \cup {-1}

\* Amounts around the top tier's cap of the full engines, in the evaluator's
\* money ticks.  Their tax, in tax ticks, is outside the integer range of the
\* model checker; the walk over the tiers is not.
AmountsOverTop == {TopCap - 1, TopCap, TopCap + 1, TopCap + MaxOverTop}

Walk(ev, key, x) ==
    CASE ev = "federal_full" -> FedChunks(BRACKETS(key), 1, Max(0, x), 0)
      [] ev = "nj_full" -> NjChunks(1, Max(0, x), 0)
      [] OTHER -> IF x <= 0 THEN [chunks |-> << >>, remaining |-> 0]
                  ELSE V2Chunks(_get_brackets(key), 1, x, 0)

InitTiers ==
    /\ \E ev \in Evaluators : \E key \in TableKeys(ev) :
         \E x \in TierAmounts(ev, key) \cup AmountsOverTop :
           br = [pc |-> "args", ev |-> ev, key |-> key, x |-> x]
    /\ taxpayer = NoProfile
    /\ w2s = << >>
    /\ call = NoCall
    /\ earlier = NoCall

\* The evaluator is applied to an amount whose tax is in range: its result
\* and the chunks its loop took.
EvalTiers ==
    /\ br.pc = "args"
    /\ br.x <= MaxAmount * TicksOf(br.ev)
    /\ LET w == Walk(br.ev, br.key, br.x)
       IN  br' = [pc |-> "evaluated", ev |-> br.ev, key |-> br.key,
                  x |-> br.x, tax |-> Evaluate(br.ev, br.key, br.x),
                  chunks |-> w.chunks, remaining |-> w.remaining]
    /\ UNCHANGED <<taxpayer, w2s, call, earlier>>

\* The evaluator is applied to an amount around the top tier's cap: the
\* chunks its loop took and what the loop left of the amount.
WalkOverTop ==
    /\ br.pc = "args"
    /\ br.x > MaxAmount * TicksOf(br.ev)
    /\ LET w == Walk(br.ev, br.key, br.x)
       IN  br' = [pc |-> "walked", ev |-> br.ev, key |-> br.key,
                  x |-> br.x, chunks |-> w.chunks,
                  remaining |-> w.remaining]
    /\ UNCHANGED <<taxpayer, w2s, call, earlier>>

NextTiers == EvalTiers \/ WalkOverTop

SpecTiers == InitTiers /\ [][NextTiers]_vars

\* Upper bound of tier i of a table in the evaluator's money ticks; the
\* bound of tier 0 is 0.
TierCap(ev, key, i) ==
    IF i = 0 THEN 0
    ELSE IF ev = "federal_full" THEN FedCap(TableOf(ev, key), i)
    ELSE TableOf(ev, key)[i][1]

\* The part of amount x inside tier i: max(0, min(x, cap_i) - cap_(i-1)).
TierPart(ev, key, x, i) ==
    Max(0, Min(x, TierCap(ev, key, i)) - TierCap(ev, key, i - 1))

\* Sum over tiers 1..i of rate x the part of x inside the tier.
RECURSIVE TierSum(_, _, _, _)
TierSum(ev, key, x, i) ==
    IF i = 0 THEN 0
    ELSE TierSum(ev, key, x, i - 1)
         + TableOf(ev, key)[i][2] * TierPart(ev, key, x, i)

\* C11: for every evaluated amount and every bracket table the evaluator
\* returns the sum over tiers of rate_i x max(0, min(taxable, cap_i) -
\* cap_(i-1)); the chunk taken in each tier visited is exactly the part of
\* the amount inside that tier; the result is never negative and is 0 for
\* an amount that is not positive.
C11_TierSumFormula ==
    br.pc = "evaluated" =>
      /\ br.tax = TierSum(br.ev, br.key, br.x, Len(TableOf(br.ev, br.key)))
      /\ \A i \in 1..Len(br.chunks) :
           br.chunks[i] = TierPart(br.ev, br.key, br.x, i)
      /\ br.tax >= 0
      /\ (br.x <= 0 => br.tax = 0)

\* C11 witness: an amount strictly inside the fourth tier of its table has
\* been evaluated, four tiers each took a positive chunk and the tax is
\* positive.
C11_Witness ==
    /\ br.pc = "evaluated"
    /\ TierCap(br.ev, br.key, 3) < br.x
    /\ br.x < TierCap(br.ev, br.key, 4)
    /\ Len(br.chunks) = 4
    /\ \A i \in 1..4 : br.chunks[i] > 0
    /\ br.tax > 0

\* C12: for every non-negative amount, however large, the chunks taken in
\* the tiers sum to the amount and nothing is left of it when the walk over
\* the tiers ends.
C12_WholeAmountAllocated ==
    (br.pc \in {"evaluated", "walked"} /\ br.x >= 0) =>
      /\ SumSeq(br.chunks) = br.x
      /\ br.remaining <= 0

\* ------------------------------------------------------------------------
\* Specification of the engines called on one profile (wizard.main)
\* ------------------------------------------------------------------------
\* The monetary keys of a profile and of a wage statement.
TaxpayerMoneyFields ==
    {"interest", "dividends", "unemployment", "nec_income", "nec_expenses",
     "ssa_benefits", "pension_distributions", "student_loan_interest",
     "ira_contrib", "hsa_contrib", "property_tax_paid", "rent_paid"}
W2MoneyFields ==
    {"wages", "federal_withheld", "nj_wages", "nj_withheld",
     "wages_box1", "fed_withheld_box2"}

\* Profile tp with the keys of ov set to ov's values.
With(tp, ov) == [f \in DOMAIN tp |-> IF f \in DOMAIN ov THEN ov[f] ELSE tp[f]]

\* Filing statuses of the profiles: two keys of the tables, a value that is
\* no key, and the absent key.
EngineStatuses == {"single", "married_joint", "nonresident_alien", "<missing>"}

\* Income and adjustment entries: none, a retiree with Social Security
\* benefits, a self-employed taxpayer, and entries that are no numbers.
EngineIncomes ==
    { [interest |-> Num(0)],
      [interest |-> Num(200), ssa_benefits |-> Num(40000),
       pension_distributions |-> Num(70000)],
      [nec_income |-> Num(8000), nec_expenses |-> Num(5000),
       student_loan_interest |-> Num(3000), ira_contrib |-> Num(1000)],
      [interest |-> BadText, ssa_benefits |-> EmptyStr,
       pension_distributions |-> NoneVal, nec_income |-> Num(8000),
       nec_expenses |-> BadText, property_tax_paid |-> BadText] }

EngineProfiles ==
    { With([BlankTaxpayer EXCEPT
               !.filing_status = fs, !.dob = dob, !.dependents = deps,
               !.housing_status = "homeowner",
               !.property_tax_paid = Num(5000)], inc) :
        fs \in EngineStatuses,
        dob \in {Dob("iso", 1950, 6, 15), Dob("iso", 1990, 3, 15)},
        deps \in {<< >>, Dependents(MaxDependents, Dob("iso", 2008, 1, 1))},
        inc \in EngineIncomes }

EngineW2Lists ==
    { << >>,
      << FullW2(50000, 4000, 50000, 1000) >>,
      << FullW2(250000, 50000, 250000, 9000) >>,
      << [FullW2(30000, 3000, 30000, 400) EXCEPT
            !.federal_withheld = BadText, !.nj_withheld = EmptyStr] >>,
      << [FullW2(30000, 3000, 0, 400) EXCEPT !.nj_wages = Missing] >>,
      << StubW2(30000, 2000) >>,
      << [StubW2(30000, 2000) EXCEPT !.wages_box1 = BadText] >> }

InitEngines ==
    /\ br = [pc |-> "idle"]
    /\ taxpayer \in EngineProfiles
    /\ w2s \in EngineW2Lists
    /\ call = NoCall
    /\ earlier = NoCall

NextEngines == ComputeFederalFull \/ ComputeNJFull \/ ComputeFederalStub

SpecEngines == InitEngines /\ [][NextEngines]_vars

\* The dict an engine call returned.
FedResult(o) == [k \in FedResultKeys |-> o[k]]
NjResult(o) == [k \in NjResultKeys |-> o[k]]
ResultOf(c) ==
    CASE c.engine = "fed_full" -> FedResult(c.out)
      [] c.engine = "nj_full" -> NjResult(c.out)
      [] OTHER -> c.out

\* What the engine of call c returns on profile tp and wage statements ws
\* with c's provider answer.
Rerun(c, tp, ws) ==
    CASE c.engine = "fed_full" -> FedResult(compute_federal(tp, ws, c.prov))
      [] c.engine = "nj_full" -> NjResult(compute_nj(tp, ws, c.prov))
      [] OTHER -> compute_federal_stub(tp, ws)

IsFullEngine(c) == c.engine \in {"fed_full", "nj_full"}

\* C13: when the EITC provider is unavailable, compute_federal and
\* compute_nj complete without raising and report an EITC of 0, and the
\* dict returned equals the one of a run on the same inputs whose provider
\* returns 0.
C13_AbsentProviderIsZero ==
    (IsFullEngine(call) /\ ~call.prov.avail) =>
      /\ ~call.raised
      /\ call.engine = "fed_full" => call.out._ref_eitc_used = 0
      /\ call.engine = "nj_full" => call.out._nj_eitc = 0
      /\ ( /\ earlier.engine = call.engine
           /\ earlier.prov = Provider(TRUE, 0) )
         => ResultOf(call) = ResultOf(earlier)

\* C13 witness: a federal run without the provider, on a profile with tax
\* to pay, follows a federal run whose provider returned 0.
C13_Witness ==
    /\ call.engine = "fed_full" /\ ~call.prov.avail
    /\ earlier.engine = "fed_full" /\ earlier.prov = Provider(TRUE, 0)
    /\ call.out.l16 > 0
    /\ call.out._ref_eitc_used = 0

\* C14: for a filing status that is no key of the configuration tables,
\* compute_federal and compute_nj complete and return the dict they return
\* for filing status "single" on the same other inputs.
C14_UnknownStatusIsSingle ==
    ( /\ IsFullEngine(call)
      /\ FsGet(taxpayer.filing_status) \notin FilingStatuses )
    => /\ ~call.raised
       /\ ResultOf(call)
            = Rerun(call, [taxpayer EXCEPT !.filing_status = "single"], w2s)

\* C14 witness: a federal run on a profile of unknown filing status with
\* taxable Social Security benefits, the standard deduction of "single" and
\* tax to pay.
C14_Witness ==
    /\ call.engine = "fed_full"
    /\ taxpayer.filing_status = "nonresident_alien"
    /\ call.out.l5b > 0
    /\ call.out.l12 = STD_DED("single")
    /\ call.out.l16 > 0

\* C15: every degraded path of the full engines is observable in the dict
\* returned: a run that took the unknown-filing-status fallback, the
\* absent-provider fallback or the default of 0 for a monetary entry that is
\* text returns a dict that differs from the dict of the corresponding run
\* that did not (status "single", provider returning 0, entry 0).
C15_DegradedPathsObservable ==
    IsFullEngine(call) =>
      /\ FsGet(taxpayer.filing_status) \notin FilingStatuses
         => ResultOf(call)
              # Rerun(call, [taxpayer EXCEPT !.filing_status = "single"], w2s)
      /\ ( /\ ~call.prov.avail
           /\ earlier.engine = call.engine
           /\ earlier.prov = Provider(TRUE, 0) )
         => ResultOf(call) # ResultOf(earlier)
      /\ \A f \in TaxpayerMoneyFields :
           taxpayer[f].tag = "text"
           => ResultOf(call)
                # Rerun(call, [taxpayer EXCEPT ![f] = Num(0)], w2s)

\* C16: for every monetary entry of the profile or of a wage statement that
\* is missing, None, empty or text that is no number, the federal engines
\* and the full NJ engine raise no exception and return the dict they
\* return when that entry is 0.
C16_MalformedMoneyIsZero ==
    call.engine \in {"fed_full", "nj_full", "fed_stub"} =>
      /\ ~call.raised
      /\ \A f \in TaxpayerMoneyFields :
           taxpayer[f].tag # "num"
           => ResultOf(call)
                = Rerun(call, [taxpayer EXCEPT ![f] = Num(0)], w2s)
      /\ \A i \in 1..Len(w2s) : \A f \in W2MoneyFields :
           w2s[i][f].tag # "num"
           => ResultOf(call)
                = Rerun(call, taxpayer, [w2s EXCEPT ![i][f] = Num(0)])

\* C17: the dict compute_nj returns does not depend on ssa_benefits: it is
\* the dict returned for the profile that differs only in having
\* ssa_benefits 0, or 20,000, on the same wage statements.
C17_NjIgnoresSsa ==
    call.engine = "nj_full" =>
      \A a \in {0, 20000} :
        ResultOf(call)
          = Rerun(call, [taxpayer EXCEPT !.ssa_benefits = Num(a)], w2s)

\* C17 witness: an NJ run on a profile with Social Security benefits and
\* with NJ gross income and tax.
C17_Witness ==
    /\ call.engine = "nj_full"
    /\ safe_float(taxpayer.ssa_benefits) > 0
    /\ call.out.l11 > 0
    /\ call.out.l16 > 0

IsScenarioC19 ==
    /\ call.engine = "fed_full"
    /\ FsGet(taxpayer.filing_status) = "single"
    /\ taxpayer.dependents = << >>
    /\ Len(w2s) = 1
    /\ safe_float(w2s[1].wages) = 50000
    /\ safe_float(w2s[1].federal_withheld) = 4000
    /\ \A f \in TaxpayerMoneyFields \ {"property_tax_paid", "rent_paid"} :
         safe_float(taxpayer[f]) = 0
    /\ FedEitc(call.prov) = 0

\* C19: in that scenario compute_federal returns taxable income 35,400, tax
\* before credits 4,016 (10% of 11,600 plus 12% of 23,800), no Child Tax
\* Credit, and refund 0.
C19_ScenarioLines ==
    IsScenarioC19 =>
      /\ call.out.l15 = 35400 * FedM
      /\ call.out.l16 = 4016 * FedT
      /\ call.out.l16 = (10 * 11600 + 12 * 23800) * FedM
      /\ call.out.l19 = 0
      /\ call.out._ref_ctc_after_phase = 0
      /\ call.out._ref_refundable_ctc = 0
      /\ call.out.l34 = 0

\* C19 witness: the scenario has been computed; 16 dollars are owed.
C19_Witness ==
    /\ IsScenarioC19
    /\ call.out.l11 = 50000 * FedM
    /\ call.out.l37 = 16 * FedT

\* ------------------------------------------------------------------------
\* Specification of the scripts that select and call an engine
\* ------------------------------------------------------------------------
\* Values of the environment variable USE_STUB_FED, resp. USE_STUB_NJ.
EnvValues == {"<unset>", "", "0", "1", "true"}

\* os.getenv(name, "0") == "1"
UseStub(env) == env = "1"

StubModule(kind) ==
    IF kind = "fed" THEN "engines.compute_federal" ELSE "engines.compute_nj"
FullModule(kind) ==
    IF kind = "fed" THEN "engines.compute_federal_full"
    ELSE "engines.compute_nj_full"

\* The scripts and the engine each one binds: run_federal.py, run_nj.py, and
\* wizard.py, whose load_engines binds one engine of each kind.
Runners ==
    { [script |-> "run_federal", kind |-> "fed"],
      [script |-> "run_nj", kind |-> "nj"],
      [script |-> "wizard", kind |-> "fed"],
      [script |-> "wizard", kind |-> "nj"] }

\* A script is started: the variable's value, whether the stub module can be
\* imported, and whether the command line names the two input files (the
\* wizard takes none).
InitRunners ==
    /\ \E r \in Runners : \E env \in EnvValues :
         \E stub_importable \in BOOLEAN : \E args_ok \in BOOLEAN :
           /\ r.script = "wizard" => args_ok
           /\ br = [pc |-> "start", script |-> r.script, kind |-> r.kind,
                    env |-> env, stub_importable |-> stub_importable,
                    args_ok |-> args_ok, bound |-> "none", called |-> "none"]
    /\ taxpayer = NoProfile
    /\ w2s = << >>
    /\ call = NoCall
    /\ earlier = NoCall

\* The toggle of run_federal.py lines 3-6, run_nj.py lines 6-9 and
\* wizard.load_engines: the import of the selected module binds the engine;
\* an import that fails raises out of the script.
SelectEngine ==
    /\ br.pc = "start"
    /\ br' = IF UseStub(br.env) /\ ~br.stub_importable
             THEN [br EXCEPT !.pc = "failed"]
             ELSE [br EXCEPT
                     !.bound = IF UseStub(br.env) THEN StubModule(br.kind)
                               ELSE FullModule(br.kind),
                     !.pc = IF br.script = "wizard" THEN "main"
                            ELSE "reimport"]
    /\ UNCHANGED <<taxpayer, w2s, call, earlier>>

\* The try block that follows the toggle in run_federal.py (lines 9-13) and
\* run_nj.py (lines 11-15): the stub module is imported under the same name;
\* when the import fails the script ends.
ReimportStub ==
    /\ br.pc = "reimport"
    /\ br' = IF br.stub_importable
             THEN [br EXCEPT !.bound = StubModule(br.kind), !.pc = "main"]
             ELSE [br EXCEPT !.pc = "exited"]
    /\ UNCHANGED <<taxpayer, w2s, call, earlier>>

\* main(): run_federal.py refers to sys, which it never imports, and fails
\* on line 27 before any engine is called; run_nj.py ends with the usage
\* text when the input files are not named; otherwise the bound engine is
\* called.
RunMain ==
    /\ br.pc = "main"
    /\ br' = CASE br.script = "run_federal" -> [br EXCEPT !.pc = "failed"]
               [] br.script = "run_nj" /\ ~br.args_ok ->
                    [br EXCEPT !.pc = "usage"]
               [] OTHER -> [br EXCEPT !.called = br.bound, !.pc = "done"]
    /\ UNCHANGED <<taxpayer, w2s, call, earlier>>

NextRunners == SelectEngine \/ ReimportStub \/ RunMain

SpecRunners == InitRunners /\ [][NextRunners]_vars

\* C20: in run_federal.py, run_nj.py and the wizard, the engine bound when
\* main starts, and the engine called, is the stub only when the variable is
\* "1" and the full engine for every other value.
C20_RunnerEngineSelection ==
    LET expected == IF br.env = "1" THEN StubModule(br.kind)
                    ELSE FullModule(br.kind)
    IN  /\ br.pc \in {"main", "done"} => br.bound = expected
        /\ br.pc = "done" => br.called = expected

\* ------------------------------------------------------------------------
\* Specification of taxable_ssa on its own
\* ------------------------------------------------------------------------
\* Benefit amounts and AGI-excluding-SSA amounts, in dollars, that put the
\* provisional income below, at and above both thresholds of every status.
SsaBenefits == {0, 1, 10000, 24000, 40000, 60000}
SsaAgis ==
    {0, 1, 12999, 13000, 13001, 20000, 21999, 22000, 22001, 24000, 32001,
     100000}

InitSsa ==
    /\ \E fs \in FilingStatuses \cup {"nonresident_alien"} :
         \E agi \in SsaAgis : \E ssa \in SsaBenefits :
           br = [pc |-> "args", filing_status |-> fs, agi_excl_ssa |-> agi,
                 ssa_total |-> ssa, out |-> 0]
    /\ taxpayer = NoProfile
    /\ w2s = << >>
    /\ call = NoCall
    /\ earlier = NoCall

\* taxable_ssa is applied to the arguments.
EvalSsa ==
    /\ br.pc = "args"
    /\ br' = [br EXCEPT
                !.pc = "done",
                !.out = taxable_ssa(br.agi_excl_ssa, br.ssa_total,
                                    br.filing_status)]
    /\ UNCHANGED <<taxpayer, w2s, call, earlier>>

NextSsa == EvalSsa

SpecSsa == InitSsa /\ [][NextSsa]_vars

\* The piecewise rule on the provisional income P = agi + benefit / 2,
\* written on 2P = 2 agi + benefit so that every term is a whole number of
\* FedM ticks.
SsaRule(fs, agi, benefit) ==
    LET twoP == 2 * agi + benefit
        base == SSA_THRESHOLDS(fs)[1]
        additional == SSA_THRESHOLDS(fs)[2]
        pct85(twice) == (85 * FedM * twice) \div 200
        pct50(twice) == (FedM * twice) \div 4
    IN  IF benefit = 0 THEN 0
        ELSE IF fs = "married_separate"
             THEN Min(pct85(2 * benefit), (FedM * twoP) \div 2)
        ELSE IF twoP <= 2 * base THEN 0
        ELSE IF twoP <= 2 * additional
             THEN Min(pct50(2 * benefit), pct50(twoP - 2 * base))
        ELSE Min(pct85(2 * benefit),
                 pct85(twoP - 2 * additional)
                 + Min(pct50(2 * benefit), pct50(2 * (additional - base))))

\* C21: for every filing status, non-negative AGI-excluding-SSA and benefit,
\* taxable_ssa equals the piecewise rule on the provisional income.
C21_TaxableSsaPiecewise ==
    br.pc = "done" =>
      br.out = SsaRule(br.filing_status, br.agi_excl_ssa, br.ssa_total)

\* C21 witness: a single filer whose provisional income is above the
\* additional threshold and whose taxable benefits lie strictly between
\* half and 85% of the benefit.
C21_Witness ==
    /\ br.pc = "done"
    /\ br.filing_status = "single"
    /\ 2 * br.agi_excl_ssa + br.ssa_total > 2 * SSA_THRESHOLDS("single")[2]
    /\ 2 * br.out > FedM * br.ssa_total
    /\ 100 * br.out < 85 * FedM * br.ssa_total

\* ------------------------------------------------------------------------
\* Credits and settlement lines of compute_federal (checked under SpecFed)
\* ------------------------------------------------------------------------
\* C22: the refundable Additional CTC is the minimum of 15% x max(0, earned
\* income - floor), the per-child refundable cap x qualifying children, and
\* the CTC left unused (credit after phase-out less the nonrefundable CTC
\* used); it is 0 when there is no qualifying child.
C22_ActcIsMinOfThree ==
    call.engine = "fed_full" =>
      LET o == call.out
          earned == ACTC_RATE * Max(0, o.l1z + o.l8 - ACTC_EARNED_INCOME_FLOOR)
                    * FedM
          per_child == ACTC_REFUNDABLE_LIMIT_PER_CHILD * o.qualifying_children
                       * FedT
          unused == o._ref_ctc_after_phase - o.l19
          r == o._ref_refundable_ctc
      IN  /\ r <= earned /\ r <= per_child /\ r <= unused
          /\ r \in {earned, per_child, unused}
          /\ o.qualifying_children = 0 => r = 0

\* C22 witness: a run with a qualifying child in which the unused CTC is the
\* smallest of the three amounts and is positive.
C22_Witness ==
    /\ call.engine = "fed_full"
    /\ call.out.qualifying_children > 0
    /\ call.out._ref_refundable_ctc > 0
    /\ call.out._ref_refundable_ctc = call.out._ref_ctc_after_phase - call.out.l19
    /\ call.out._ref_refundable_ctc
         < ACTC_REFUNDABLE_LIMIT_PER_CHILD * call.out.qualifying_children * FedT
    /\ call.out.l19 > 0

\* C23: in every result of compute_federal, line 34 - line 37 = line 25d +
\* line 27 - (line 16 - line 19).
C23_SettlementLinesConsistent ==
    call.engine = "fed_full" =>
      call.out.l34 - call.out.l37
        = call.out.l25d * FedT + call.out.l27
          - (call.out.l16 - call.out.l19)

\* C23 witness: a run with withholding, an EITC, nonrefundable CTC used and
\* tax left after it, ending in a refund.
C23_Witness ==
    /\ call.engine = "fed_full"
    /\ call.out.l25d > 0
    /\ call.out._ref_eitc_used > 0
    /\ call.out.l19 > 0
    /\ call.out.l16 > call.out.l19
    /\ call.out.l34 > 0

\* C25: nonrefundable CTC used + refundable ACTC <= CTC after phase-out <=
\* per-child amount x qualifying children; the nonrefundable part is at most
\* the tax before credits, so the tax after nonrefundable credits is never
\* negative.
C25_CtcWithinBounds ==
    call.engine = "fed_full" =>
      LET o == call.out
      IN  /\ o.l19 + o._ref_refundable_ctc <= o._ref_ctc_after_phase
          /\ o._ref_ctc_after_phase
               <= CTC_PER_CHILD * o.qualifying_children * FedT
          /\ o.l19 <= o.l16
          /\ o.l16 - o.l19 >= 0
          /\ o.l19 >= 0 /\ o._ref_refundable_ctc >= 0

\* C25 witness: a run with two qualifying children whose tax before credits
\* is below the credit after phase-out: part of the credit is used against
\* the tax, part is refunded, and part is left.
C25_Witness ==
    /\ call.engine = "fed_full"
    /\ call.out.qualifying_children = 2
    /\ call.out.l19 > 0
    /\ call.out.l19 = call.out.l16
    /\ call.out._ref_refundable_ctc > 0
    /\ call.out.l19 + call.out._ref_refundable_ctc
         <= call.out._ref_ctc_after_phase

\* ------------------------------------------------------------------------
\* NJ exemptions and property-tax credit (checked under SpecNJ)
\* ------------------------------------------------------------------------
\* The filing status a v2 status code stands for.
V2StatusOf(fs) ==
    CASE Upper(FsOrEmpty(fs)) = "MFJ" -> "married_joint"
      [] Upper(FsOrEmpty(fs)) = "MFS" -> "married_separate"
      [] Upper(FsOrEmpty(fs)) = "QW" -> "qual_widow"
      [] OTHER -> "single"

\* Personal exemption, doubled for the joint-type statuses, plus the
\* dependent exemption for each dependent.
SpecExemptions(status, dependents) ==
    (IF status \in {"married_joint", "qual_widow"}
     THEN 2 * EXEMPT_PERSONAL_EACH ELSE EXEMPT_PERSONAL_EACH)
    + NJ_DEP_EXEMPTION * dependents

\* C24: in both NJ engines the exemptions are the personal exemption,
\* doubled for married-joint and qualifying-widow only, plus 1,500 for each
\* dependent.
C24_NjExemptions ==
    /\ IsFull =>
         call.out.l12 - call.out._pension_exclusion - call.out._pt_ded_used
           = SpecExemptions(FsGet(taxpayer.filing_status),
                            Len(taxpayer.dependents))
    /\ (IsV2 /\ taxpayer.exempt_flags = {}) =>
         call.out.l13
           = SpecExemptions(V2StatusOf(taxpayer.filing_status),
                            _safe_num(taxpayer.exempt_dependent_count))

\* C26: when the property-tax equivalent is 0 (no housing status, or nothing
\* paid) no property-tax credit is used and the NJ tax is the bracket tax on
\* gross income less exemptions and pension exclusion.
C26_NoCreditWithoutPropertyTax ==
    /\ (IsFull /\ call.out._pt_equiv = 0) =>
         /\ call.out._pt_credit_used = 0
         /\ call.out.l16
              = nj_tax_from_brackets(
                  Max(0, call.out.l11
                         - (call.out.l12 - call.out._pt_ded_used)))
    /\ (IsV2 /\ _safe_num(taxpayer.property_tax_paid) = 0) =>
         /\ ~call.out.s_prop_tax_credit_used
         /\ call.out.extra_credits = 0
         /\ call.out.l43
              = _round_dollar(
                  _tax_from_brackets(call.out.l39,
                      _get_brackets(Upper(FsOrEmpty(taxpayer.filing_status)))),
                  NjT)

\* ------------------------------------------------------------------------
\* wizard.py: the console wizard
\* ------------------------------------------------------------------------
\* A text the user typed is the sequence of its characters; a key that was
\* never stored is NoText.  A yes/no answer stored in the profile is a Flag.
Text(chars) == [tag |-> "str", chars |-> chars]
NoText == [tag |-> "missing", chars |-> << >>]
Flag(b) == [tag |-> "bool", val |-> IF b THEN 1 ELSE 0]

DigitChars == <<"0", "1", "2", "3", "4", "5", "6", "7", "8", "9">>
IsDigit(c) == \E i \in 1..Len(DigitChars) : DigitChars[i] = c

\* digits_list: the digit characters of the text, in order.
digits_list(raw) == SelectSeq(raw, IsDigit)

\* f"{n:0{pad}d}" as a list of characters.
RECURSIVE Padded(_, _)
Padded(n, pad) ==
    IF pad = 0 /\ n = 0 THEN << >>
    ELSE Append(Padded(n \div 10, Max(0, pad - 1)), DigitChars[(n % 10) + 1])

DOLLAR_PAD == 9
CENTS_PAD == 2

\* money_to_digits: amounts are in cents here.
money_to_digits(cents_amount, dollar_pad) ==
    LET val_abs == IF cents_amount < 0 THEN -cents_amount ELSE cents_amount
        dollars == val_abs \div 100
        cents == val_abs % 100
    IN  [dollars |-> Padded(dollars, dollar_pad),
         cents |-> Padded(cents, CENTS_PAD)]

NoDigits == [dollars |-> << >>, cents |-> << >>]

\* set_money: the number under key and its two digit arrays (kept in the
\* field digits, under the same key).  value is in whole dollars.
set_money(obj, key, value) ==
    [obj EXCEPT ![key] = Num(value),
                !.digits = [@ EXCEPT ![key] = money_to_digits(value * 100, DOLLAR_PAD)]]

\* The money keys the wizard stores on a profile and on a wage statement.
WizardMoneyKeys ==
    {"interest", "dividends", "unemployment", "nec_income", "nec_expenses",
     "ssa_benefits", "pension", "student_loan_interest", "ira_contributions",
     "hsa_contributions", "rent_paid", "property_tax_paid"}
WizardW2MoneyKeys ==
    {"wages", "federal_withheld", "ss_wages", "ss_tax", "medicare_wages",
     "medicare_tax", "nj_wages", "nj_withheld"}

\* tp = {} of collect_personal_info: no key is set.  The keys are those the
\* engines read and those the wizard writes; names, e-mail and address are
\* free text no operation of the model reads and are left out.
WizardBlank ==
    [ kind |-> "profile", filing_status |-> "<missing>", dob |-> NoDob,
      dependents |-> << >>,
      interest |-> Missing, dividends |-> Missing, unemployment |-> Missing,
      nec_income |-> Missing, nec_expenses |-> Missing,
      ssa_benefits |-> Missing, pension_distributions |-> Missing,
      student_loan_interest |-> Missing, ira_contrib |-> Missing,
      hsa_contrib |-> Missing,
      housing_status |-> "", property_tax_paid |-> Missing,
      rent_paid |-> Missing,
      interest_taxable |-> Missing, dividends_taxable |-> Missing,
      exempt_dependent_count |-> Missing, exempt_flags |-> {},
      federal_eitc_amount |-> Missing,
      ssn |-> NoText, ssn_digits |-> NoText, dob_digits |-> NoText,
      pension |-> Missing, ira_contributions |-> Missing,
      hsa_contributions |-> Missing, itemize |-> Missing,
      months_at_property |-> Missing, landlord_or_owner |-> NoText,
      direct_deposit |-> Missing,
      bank_routing |-> NoText, bank_routing_digits |-> NoText,
      bank_account |-> NoText, bank_account_digits |-> NoText,
      bank_account_type |-> "<missing>",
      digits |-> [k \in WizardMoneyKeys |-> NoDigits] ]

\* w = {} of collect_w2s.
WizardBlankW2 ==
    [ wages |-> Missing, federal_withheld |-> Missing,
      nj_wages |-> Missing, nj_withheld |-> Missing,
      state_wages_box16 |-> Missing, state_withheld_box17 |-> Missing,
      wages_box1 |-> Missing, fed_withheld_box2 |-> Missing,
      ss_wages |-> Missing, ss_tax |-> Missing,
      medicare_wages |-> Missing, medicare_tax |-> Missing,
      digits |-> [k \in WizardW2MoneyKeys |-> NoDigits] ]

\* The text of a date of birth: its digit characters.
DobDigits(dob) ==
    CASE dob.fmt = "us" -> Padded(dob.m, 2) \o Padded(dob.d, 2) \o Padded(dob.y, 4)
      [] dob.fmt = "iso" -> Padded(dob.y, 4) \o Padded(dob.m, 2) \o Padded(dob.d, 2)
      [] OTHER -> << >>

\* One dependent as collect_dependents stores it (lines 137-145).
WizardDependent(ssn, dob, rel) ==
    [ relationship |-> rel, dob |-> dob, ssn |-> Text(ssn),
      digits |-> Text(digits_list(ssn)), dob_digits |-> Text(DobDigits(dob)) ]

\* One wage statement as collect_w2s stores it (lines 157-169); a holds the
\* eight amounts typed.
WizardW2(a) ==
    LET w1 == set_money(WizardBlankW2, "wages", a.wages)
        w2 == set_money(w1, "federal_withheld", a.federal_withheld)
        w3 == set_money(w2, "ss_wages", a.ss_wages)
        w4 == set_money(w3, "ss_tax", a.ss_tax)
        w5 == set_money(w4, "medicare_wages", a.medicare_wages)
        w6 == set_money(w5, "medicare_tax", a.medicare_tax)
        w7 == set_money(w6, "nj_wages", a.nj_wages)
    IN  set_money(w7, "nj_withheld", a.nj_withheld)

\* What the user types.  Amounts are whole dollars.
WizardEnv == {"<unset>", "1"}
FilingAnswers == {"single", "married_joint"}
SsnAnswers == {<<"1", "2", "-", "3">>}
DobAnswers == {Dob("us", 1990, 6, 15), Dob("iso", 1990, 6, 15)}
DependentAnswers ==
    {WizardDependent(<<"4", "-", "5">>, Dob("us", 2015, 3, 1), "child")}
W2Answers ==
    {[wages |-> 30000, federal_withheld |-> 3000, ss_wages |-> 30000,
      ss_tax |-> 1860, medicare_wages |-> 30000, medicare_tax |-> 435,
      nj_wages |-> 30000, nj_withheld |-> 900]}
W2EditAnswers ==
    {[wages |-> 60000, federal_withheld |-> 4000, ss_wages |-> 60000,
      ss_tax |-> 3720, medicare_wages |-> 60000, medicare_tax |-> 870,
      nj_wages |-> 60000, nj_withheld |-> 500]}
OtherIncomeAnswers ==
    [interest : {0}, dividends : {0}, unemployment : {0}, nec_income : {0},
     nec_expenses : {0}, ssa_benefits : {0}, pension : {0, 20000}]
AdjustmentAnswers ==
    {[itemize |-> FALSE, student_loan_interest |-> 0,
      ira_contributions |-> 0, hsa_contributions |-> 0],
     [itemize |-> FALSE, student_loan_interest |-> 0,
      ira_contributions |-> 3000, hsa_contributions |-> 2000]}
HousingOptions == {"homeowner", "tenant", "both"}
RentAnswers == {12000}
PropertyTaxAnswers == {6000}
MonthsAnswers == {12}
RoutingAnswers == {<<"0", "2", "1", "-", "7">>}
AccountAnswers == {<<"9", "9", " ", "8">>}
AccountTypes == {"checking"}

\* Largest number of wage statements entered.
MaxW2s == 1

\* collect_dependents() and collect_w2s(): "no" gives the empty list, else
\* one entry per round of the loop.
DependentLists ==
    UNION {[1..n -> DependentAnswers] : n \in 0..MaxDependents}
W2Lists(room) ==
    UNION {[1..n -> {WizardW2(a) : a \in W2Answers}] : n \in 0..room}

\* The summary main prints; nothing is printed before the engines ran.
NoSummary == [printed |-> FALSE]

InitWizard ==
    /\ br = [pc |-> "load_engines", FED |-> "none", NJ |-> "none",
             summary |-> NoSummary, written |-> {}]
    /\ taxpayer = NoProfile
    /\ w2s = << >>
    /\ call = NoCall
    /\ earlier = NoCall

\* load_engines (lines 504-515): one engine of each kind is bound.
load_engines ==
    /\ br.pc = "load_engines"
    /\ \E env_fed \in WizardEnv, env_nj \in WizardEnv :
         br' = [br EXCEPT
                  !.FED = IF UseStub(env_fed) THEN StubModule("fed")
                          ELSE FullModule("fed"),
                  !.NJ = IF UseStub(env_nj) THEN StubModule("nj")
                         ELSE FullModule("nj"),
                  !.pc = "collect_personal_info"]
    /\ UNCHANGED <<taxpayer, w2s, call, earlier>>

\* collect_personal_info (lines 90-123).
collect_personal_info ==
    /\ br.pc = "collect_personal_info"
    /\ \E ssn_raw \in SsnAnswers, dob_raw \in DobAnswers,
          fs \in FilingAnswers :
         taxpayer' = [WizardBlank EXCEPT
                        !.ssn = Text(ssn_raw),
                        !.ssn_digits = Text(digits_list(ssn_raw)),
                        !.dob = dob_raw,
                        !.dob_digits = Text(DobDigits(dob_raw)),
                        !.filing_status = fs]
    /\ br' = [br EXCEPT !.pc = "collect_dependents"]
    /\ UNCHANGED <<w2s, call, earlier>>

\* taxpayer["dependents"] = collect_dependents() (lines 125-148, 526).
collect_dependents ==
    /\ br.pc = "collect_dependents"
    /\ \E deps \in DependentLists :
         taxpayer' = [taxpayer EXCEPT !.dependents = deps]
    /\ br' = [br EXCEPT !.pc = "collect_w2s"]
    /\ UNCHANGED <<w2s, call, earlier>>

\* w2s = collect_w2s() (lines 150-172, 527).
collect_w2s ==
    /\ br.pc = "collect_w2s"
    /\ w2s' \in W2Lists(MaxW2s)
    /\ br' = [br EXCEPT !.pc = "collect_other_income"]
    /\ UNCHANGED <<taxpayer, call, earlier>>

\* The seven set_money calls of collect_other_income and edit_other_income.
StoreOtherIncome(tp, a) ==
    LET t1 == set_money(tp, "interest", a.interest)
        t2 == set_money(t1, "dividends", a.dividends)
        t3 == set_money(t2, "unemployment", a.unemployment)
        t4 == set_money(t3, "nec_income", a.nec_income)
        t5 == set_money(t4, "nec_expenses", a.nec_expenses)
        t6 == set_money(t5, "ssa_benefits", a.ssa_benefits)
    IN  set_money(t6, "pension", a.pension)

\* collect_other_income (lines 174-206): a "no" stores 0.
collect_other_income ==
    /\ br.pc = "collect_other_income"
    /\ \E a \in OtherIncomeAnswers :
         taxpayer' = StoreOtherIncome(taxpayer, a)
    /\ br' = [br EXCEPT !.pc = "collect_adjustments"]
    /\ UNCHANGED <<w2s, call, earlier>>

\* The assignments of collect_adjustments and edit_adjustments.
StoreAdjustments(tp, a) ==
    LET t1 == [tp EXCEPT !.itemize = Flag(a.itemize)]
        t2 == set_money(t1, "student_loan_interest", a.student_loan_interest)
        t3 == set_money(t2, "ira_contributions", a.ira_contributions)
    IN  set_money(t3, "hsa_contributions", a.hsa_contributions)

\* collect_adjustments (lines 208-216).
collect_adjustments ==
    /\ br.pc = "collect_adjustments"
    /\ \E a \in AdjustmentAnswers :
         taxpayer' = StoreAdjustments(taxpayer, a)
    /\ br' = [br EXCEPT !.pc = "collect_nj_property"]
    /\ UNCHANGED <<w2s, call, earlier>>

\* The assignments of collect_nj_property and edit_nj_property.
StoreProperty(tp, rent, property_tax, months, landlord) ==
    LET t1 == set_money(tp, "rent_paid", rent)
        t2 == set_money(t1, "property_tax_paid", property_tax)
    IN  [t2 EXCEPT !.months_at_property = Num(months),
                   !.landlord_or_owner = Text(landlord)]

\* collect_nj_property (lines 218-237): the homeowner/tenant/both answer
\* decides which amounts are asked; it is not stored.
collect_nj_property ==
    /\ br.pc = "collect_nj_property"
    /\ \/ taxpayer' = StoreProperty(taxpayer, 0, 0, 0, << >>)
       \/ \E status \in HousingOptions, rent \in RentAnswers,
             property_tax \in PropertyTaxAnswers, months \in MonthsAnswers :
            taxpayer' =
              StoreProperty(taxpayer,
                  IF status \in {"tenant", "both"} THEN rent ELSE 0,
                  IF status \in {"homeowner", "both"} THEN property_tax ELSE 0,
                  months, << >>)
    /\ br' = [br EXCEPT !.pc = "collect_refund_prefs"]
    /\ UNCHANGED <<w2s, call, earlier>>

\* The bank keys stored when direct deposit is wanted.
StoreBank(tp, routing, account, type) ==
    [tp EXCEPT !.bank_routing = Text(routing),
               !.bank_routing_digits = Text(digits_list(routing)),
               !.bank_account = Text(account),
               !.bank_account_digits = Text(digits_list(account)),
               !.bank_account_type = type]

\* collect_refund_prefs (lines 239-256).
collect_refund_prefs ==
    /\ br.pc = "collect_refund_prefs"
    /\ \/ \E routing \in RoutingAnswers, account \in AccountAnswers,
             type \in AccountTypes :
            taxpayer' =
              StoreBank([taxpayer EXCEPT !.direct_deposit = Flag(TRUE)],
                        routing, account, type)
       \/ taxpayer' =
            StoreBank([taxpayer EXCEPT !.direct_deposit = Flag(FALSE)],
                      << >>, << >>, "checking")
    /\ br' = [br EXCEPT !.pc = "review"]
    /\ UNCHANGED <<w2s, call, earlier>>

\* edit_personal (lines 317-347): every prompt offers the stored value as
\* its default.
edit_personal ==
    /\ br.pc = "review"
    /\ \E ssn_raw \in SsnAnswers \cup {taxpayer.ssn.chars},
          dob_raw \in DobAnswers \cup {taxpayer.dob},
          fs \in FilingAnswers \cup {FsGet(taxpayer.filing_status)} :
         taxpayer' = [taxpayer EXCEPT
                        !.ssn = Text(ssn_raw),
                        !.ssn_digits = Text(digits_list(ssn_raw)),
                        !.dob = dob_raw,
                        !.dob_digits = Text(DobDigits(dob_raw)),
                        !.filing_status = fs]
    /\ UNCHANGED <<br, w2s, call, earlier>>

\* Choice 2 of the review menu (line 494): the dependents are collected
\* again.
edit_dependents ==
    /\ br.pc = "review"
    /\ \E deps \in DependentLists :
         taxpayer' = [taxpayer EXCEPT !.dependents = deps]
    /\ UNCHANGED <<br, w2s, call, earlier>>

\* Choice 3 of the review menu: edit_w2s is entered.
edit_w2s ==
    /\ br.pc = "review"
    /\ br' = [br EXCEPT !.pc = "edit_w2s"]
    /\ UNCHANGED <<taxpayer, w2s, call, earlier>>

\* edit_w2s, choice "add" (lines 372-373).
edit_w2s_add ==
    /\ br.pc = "edit_w2s"
    /\ Len(w2s) < MaxW2s
    /\ \E more \in W2Lists(MaxW2s - Len(w2s)) : w2s' = w2s \o more
    /\ UNCHANGED <<br, taxpayer, call, earlier>>

\* edit_one_w2 (lines 349-359): the eight amounts are stored again.
edit_one_w2(w, a) ==
    LET w1 == set_money(w, "wages", a.wages)
        w2 == set_money(w1, "federal_withheld", a.federal_withheld)
        w3 == set_money(w2, "ss_wages", a.ss_wages)
        w4 == set_money(w3, "ss_tax", a.ss_tax)
        w5 == set_money(w4, "medicare_wages", a.medicare_wages)
        w6 == set_money(w5, "medicare_tax", a.medicare_tax)
        w7 == set_money(w6, "nj_wages", a.nj_wages)
    IN  set_money(w7, "nj_withheld", a.nj_withheld)

\* max(1, min(len(w2s), prompt_int(...))) of lines 377 and 382
ClampIndex(n, len) == Max(1, Min(len, n))

\* edit_w2s, choice "edit" (lines 374-378).
edit_w2s_edit ==
    /\ br.pc = "edit_w2s"
    /\ w2s # << >>
    /\ \E n \in 0..(Len(w2s) + 1), a \in W2EditAnswers :
         LET idx == ClampIndex(n, Len(w2s))
         IN  w2s' = [w2s EXCEPT ![idx] = edit_one_w2(w2s[idx], a)]
    /\ UNCHANGED <<br, taxpayer, call, earlier>>

\* edit_w2s, choice "delete" (lines 379-383).
edit_w2s_delete ==
    /\ br.pc = "edit_w2s"
    /\ w2s # << >>
    /\ \E n \in 0..(Len(w2s) + 1) :
         LET idx == ClampIndex(n, Len(w2s))
         IN  w2s' = SubSeq(w2s, 1, idx - 1) \o SubSeq(w2s, idx + 1, Len(w2s))
    /\ UNCHANGED <<br, taxpayer, call, earlier>>

\* edit_w2s, choice "done" (lines 370-371).
edit_w2s_done ==
    /\ br.pc = "edit_w2s"
    /\ br' = [br EXCEPT !.pc = "review"]
    /\ UNCHANGED <<taxpayer, w2s, call, earlier>>

\* edit_other_income (lines 385-393).
edit_other_income ==
    /\ br.pc = "review"
    /\ \E a \in OtherIncomeAnswers :
         taxpayer' = StoreOtherIncome(taxpayer, a)
    /\ UNCHANGED <<br, w2s, call, earlier>>

\* edit_adjustments (lines 395-400).
edit_adjustments ==
    /\ br.pc = "review"
    /\ \E a \in AdjustmentAnswers :
         taxpayer' = StoreAdjustments(taxpayer, a)
    /\ UNCHANGED <<br, w2s, call, earlier>>

\* edit_nj_property (lines 402-407): the amounts are asked with the stored
\* values as defaults; months and landlord are left at their defaults.
edit_nj_property ==
    /\ br.pc = "review"
    /\ \E rent \in RentAnswers \cup {safe_float(taxpayer.rent_paid)},
          property_tax \in PropertyTaxAnswers
                             \cup {safe_float(taxpayer.property_tax_paid)} :
         taxpayer' = StoreProperty(taxpayer, rent, property_tax,
                                   safe_float(taxpayer.months_at_property),
                                   taxpayer.landlord_or_owner.chars)
    /\ UNCHANGED <<br, w2s, call, earlier>>

\* edit_refund_prefs (lines 409-420): with direct deposit the bank keys are
\* stored again, here with the stored texts kept as the answers (the
\* defaults of the prompts); without it no bank key is touched.
edit_refund_prefs ==
    /\ br.pc = "review"
    /\ \E dd \in BOOLEAN :
         IF dd
         THEN \E type \in AccountTypes \cup {taxpayer.bank_account_type} :
                taxpayer' =
                  StoreBank([taxpayer EXCEPT !.direct_deposit = Flag(dd)],
                            taxpayer.bank_routing.chars,
                            taxpayer.bank_account.chars, type)
         ELSE taxpayer' = [taxpayer EXCEPT !.direct_deposit = Flag(dd)]
    /\ UNCHANGED <<br, w2s, call, earlier>>

\* Choice 8 of the review menu: review_and_edit returns (line 500).
review_continue ==
    /\ br.pc = "review"
    /\ br' = [br EXCEPT !.pc = "FED"]
    /\ UNCHANGED <<taxpayer, w2s, call, earlier>>

\* fed_raw = FED(taxpayer, w2s) (line 536).
main_FED ==
    /\ br.pc = "FED"
    /\ IF br.FED = FullModule("fed")
       THEN \E prov \in Providers :
              call' = [engine |-> "fed_full", prov |-> prov,
                       raised |-> FALSE,
                       out |-> compute_federal(taxpayer, w2s, prov)]
       ELSE call' = [engine |-> "fed_stub", prov |-> Provider(FALSE, 0),
                     raised |-> StubCallRaises(w2s),
                     out |-> compute_federal_stub(taxpayer, w2s)]
    /\ earlier' = call
    /\ br' = [br EXCEPT !.pc = "NJ"]
    /\ UNCHANGED <<taxpayer, w2s>>

\* nj_raw = NJ(taxpayer, w2s) (line 537).
main_NJ ==
    /\ br.pc = "NJ"
    /\ IF br.NJ = FullModule("nj")
       THEN \E prov \in Providers :
              call' = [engine |-> "nj_full", prov |-> prov,
                       raised |-> FALSE,
                       out |-> compute_nj(taxpayer, w2s, prov)]
       ELSE call' = [engine |-> "nj_v2", prov |-> Provider(FALSE, 0),
                     raised |-> FALSE,
                     out |-> compute_nj_v2(taxpayer, w2s)]
    /\ earlier' = call
    /\ br' = [br EXCEPT !.pc = "report"]
    /\ UNCHANGED <<taxpayer, w2s>>

\* raw.get(key, 0) on the dict an engine returned: the v2 NJ engine returns
\* {"lines": ..., "summary": ...}, which has no line key at its top level.
RawGet(c, key) ==
    CASE c.engine = "fed_full" ->
           IF key \in FedResultKeys THEN c.out[key] ELSE 0
      [] c.engine = "nj_full" ->
           IF key \in NjResultKeys THEN c.out[key] ELSE 0
      [] c.engine = "fed_stub" ->
           IF key \in DOMAIN c.out THEN c.out[key] ELSE 0
      [] OTHER -> 0

\* sum(w.get(key, 0) for w in w2s) of lines 543-553
SumW2(ws, key) == SumSeq([i \in 1..Len(ws) |-> safe_float(ws[i][key])])

\* Lines 539-556 of main: the two result files are written and the two
\* summaries printed.  fed_raw is the earlier call, nj_raw the latest.
main_report ==
    /\ br.pc = "report"
    /\ br' = [br EXCEPT
                !.written = {"out/out_f1040.json", "out/out_nj1040.json"},
                !.summary =
                  [ printed |-> TRUE,
                    wages |-> SumW2(w2s, "wages"),
                    fed_tax |-> RawGet(earlier, "l16"),
                    fed_wh |-> SumW2(w2s, "federal_withheld"),
                    fed_refund |-> RawGet(earlier, "l34"),
                    fed_owed |-> RawGet(earlier, "l37"),
                    nj_wages |-> SumW2(w2s, "nj_wages"),
                    nj_tax |-> RawGet(call, "l16"),
                    nj_wh |-> SumW2(w2s, "nj_withheld"),
                    nj_refund |-> RawGet(call, "l65"),
                    nj_owed |-> RawGet(call, "l66") ],
                !.pc = "done"]
    /\ UNCHANGED <<taxpayer, w2s, call, earlier>>

NextWizard ==
    \/ load_engines
    \/ collect_personal_info
    \/ collect_dependents
    \/ collect_w2s
    \/ collect_other_income
    \/ collect_adjustments
    \/ collect_nj_property
    \/ collect_refund_prefs
    \/ edit_personal
    \/ edit_dependents
    \/ edit_w2s
    \/ edit_w2s_add
    \/ edit_w2s_edit
    \/ edit_w2s_delete
    \/ edit_w2s_done
    \/ edit_other_income
    \/ edit_adjustments
    \/ edit_nj_property
    \/ edit_refund_prefs
    \/ review_continue
    \/ main_FED
    \/ main_NJ
    \/ main_report

SpecWizard == InitWizard /\ [][NextWizard]_vars


\* ------------------------------------------------------------------------
\* Properties of the wizard (checked under SpecWizard)
\* ------------------------------------------------------------------------
\* The profile as the answers describe it to the full engines: the 1099-R,
\* IRA and HSA amounts under the keys the engines read, and the housing
\* status that the stored rent and property tax show (a homeowner paid only
\* property tax, a tenant only rent; with both or neither it is left as it
\* is).
AsAnswered(tp) ==
    [tp EXCEPT
       !.pension_distributions = tp.pension,
       !.ira_contrib = tp.ira_contributions,
       !.hsa_contrib = tp.hsa_contributions,
       !.housing_status =
          IF safe_float(tp.property_tax_paid) > 0 /\ safe_float(tp.rent_paid) = 0
          THEN "homeowner"
          ELSE IF safe_float(tp.rent_paid) > 0
                  /\ safe_float(tp.property_tax_paid) = 0
               THEN "tenant"
               ELSE tp.housing_status]

\* C27: the pension, IRA-contribution, HSA-contribution and housing-status
\* answers reach the full engines: the result of a full engine called by
\* the wizard is its result on the profile that holds those answers under
\* the keys the engine reads.
C27_AnswersReachEngines ==
    /\ call.engine = "fed_full" =>
         FedResult(call.out)
           = FedResult(compute_federal(AsAnswered(taxpayer), w2s, call.prov))
    /\ call.engine = "nj_full" =>
         NjResult(call.out)
           = NjResult(compute_nj(AsAnswered(taxpayer), w2s, call.prov))

\* The age on December 31 of the year of the person born on the date dob
\* denotes, in whichever format it is written.
RealAge(dob, year) ==
    year - dob.y - (IF BeforeBirthday(12, 31, dob.m, dob.d) THEN 1 ELSE 0)

IsWizardDate(dob) == dob.fmt = "us" /\ ValidDate(dob.y, dob.m, dob.d)

\* C28: a date of birth typed as MM/DD/YYYY gives the real age: age_on
\* returns it, a child dependent under 17 is counted as a qualifying child,
\* and a taxpayer under 62 gets no NJ pension exclusion.
C28_WizardDobGivesRealAge ==
    /\ (taxpayer # NoProfile /\ IsWizardDate(taxpayer.dob)) =>
         age_on(taxpayer.dob, TAX_YEAR) = RealAge(taxpayer.dob, TAX_YEAR)
    /\ call.engine = "fed_full" =>
         \A i \in 1..Len(taxpayer.dependents) :
            LET d == taxpayer.dependents[i]
            IN  (/\ IsWizardDate(d.dob)
                 /\ Lower(d.relationship) = "child"
                 /\ RealAge(d.dob, TAX_YEAR) < QUALIFYING_CHILD_AGE)
                => call.out.qualifying_children >= 1
    /\ (/\ call.engine = "nj_full"
        /\ IsWizardDate(taxpayer.dob)
        /\ RealAge(taxpayer.dob, NJ_TAX_YEAR) < PENSION_EXCLUSION_MIN_AGE)
       => call.out._pension_exclusion = 0

\* C29: the refund and the amount owed of the NJ summary are those the NJ
\* engine returned: lines "34" and "37" of the full engine, lines "80" and
\* "67" of the v2 engine.
C29_NjSummaryShowsResult ==
    br.summary.printed =>
      /\ call.engine = "nj_full" =>
           /\ br.summary.nj_refund = call.out.l34
           /\ br.summary.nj_owed = call.out.l37
      /\ call.engine = "nj_v2" =>
           /\ br.summary.nj_refund = call.out.l80
           /\ br.summary.nj_owed = call.out.l67

\* C30: whenever direct_deposit is False, the routing and account numbers
\* and their digit arrays are empty.
C30_NoDepositNoBankData ==
    (taxpayer # NoProfile /\ taxpayer.direct_deposit = Flag(FALSE)) =>
      /\ taxpayer.bank_routing.chars = << >>
      /\ taxpayer.bank_account.chars = << >>
      /\ taxpayer.bank_routing_digits.chars = << >>
      /\ taxpayer.bank_account_digits.chars = << >>

====
